---- MODULE Spec2Model ----
(***************************************************************************)
(* Model of the ARC Discovery Projects pipeline:                           *)
(*   - the ranking service of src/app.py (the load at startup, load_data,  *)
(*     get_for_codes, get_ranked_cis, get_ci_detail),                      *)
(*   - the counts src/simple_build.py writes to ranked_cis.json,           *)
(*   - extract_cis_and_affiliations of src/extract_cis.py,                 *)
(*   - GrantRecord.chief_investigators of src/arc_dp_crawler.py,           *)
(*   - the discovery and detail loops of main() of src/arc_dp_crawler.py.  *)
(* Strings are sequences of one-character strings, so that split, strip,   *)
(* join, lower/upper and startswith are computed as the code computes them.*)
(***************************************************************************)
EXTENDS Integers, Sequences, FiniteSets, TLC

VARIABLES
    df,         \* app.py: the table read by load_data (sequence of rows)
    exploded,   \* app.py: the long form built by load_data
    resp,       \* app.py: the answer of the last request handled
    startup,    \* app.py: the module-level load at startup and its outcome
    choices,    \* app.py: the specific codes offered by get_for_codes
    two_digit_choices, \* app.py: the two-digit codes offered by get_for_codes
    ranked_cis_json, \* simple_build.py: build/api/ranked_cis.json
    rec,        \* crawler: the GrantRecord chief_investigators() is called on
    cis,        \* crawler: the call of chief_investigators() and its result
    args,       \* crawler main(): the parsed command line
    pc,         \* crawler main(): position in main()
    page,       \* crawler main(): page number of the discovery loop
    total_pages_seen, \* crawler main(): meta total-pages of the first page
    dp_ids,     \* crawler main(): identifiers collected by discovery
    listed,     \* history: the identifiers of the listing items seen so far
    idx,        \* crawler main(): position of the detail loop in dp_ids
    results,    \* crawler main(): the GrantRecords parsed so far
    outcomes,   \* history: outcome of each detail fetch, in order
    errlog,     \* crawler main(): identifiers logged as failed
    out_json,   \* the JSON output file (None until written)
    out_csv,    \* the CSV output file (None until written)
    sleeps,     \* history: the time.sleep calls of the detail loop
    reported,   \* the count printed by the last line of main()
    page_failed, \* history: fetch_page raised in the discovery loop
    requested,  \* history: the calls of fetch_page, in order
    ci_data,    \* extract_cis.py: the detailed entries of its JSON output
    req         \* transport: one session.get() with its attempts

vars == <<df, exploded, resp, startup, choices, two_digit_choices,
          ranked_cis_json, rec, cis,
          args, pc, page, total_pages_seen,
          dp_ids, listed, idx, results, outcomes, errlog, out_json, out_csv,
          sleeps, reported, page_failed, requested, ci_data, req>>

\* The globals load_data fills at startup.
loadVars == <<df, exploded, startup, choices, two_digit_choices>>

rankVars == <<df, exploded, resp, startup, choices, two_digit_choices,
              ranked_cis_json>>
ciVars == <<rec, cis>>
crawlVars == <<args, pc, page, total_pages_seen, dp_ids, listed, idx, results,
               outcomes, errlog, out_json, out_csv, sleeps, reported,
               page_failed, requested, ci_data>>
getVars == <<req>>

\* Python's None / pandas' NaN: a value no string of the model equals.
None == <<"None">>
NaN == <<"NaN">>
\* None / NaN where the other values are numbers (no number of the model is
\* negative).
NoNum == 0 - 1

----------------------------------------------------------------------------
(* Strings *)

Uppers == <<"A", "B", "C", "D", "E", "F", "G", "H", "I", "J", "K", "L", "M",
            "N", "O", "P", "Q", "R", "S", "T", "U", "V", "W", "X", "Y", "Z">>
Lowers == <<"a", "b", "c", "d", "e", "f", "g", "h", "i", "j", "k", "l", "m",
            "n", "o", "p", "q", "r", "s", "t", "u", "v", "w", "x", "y", "z">>

\* The characters of the model, in code-point order.
Alphabet == <<" ", "-", ".", "0", "1", "2", "3", "4", "5", "6", "7", "8", "9",
              ";">> \o Uppers \o Lowers

Ord(c) == CHOOSE i \in 1..Len(Alphabet) : Alphabet[i] = c

\* s < t in Python's string order.
RECURSIVE StrLess(_, _)
StrLess(s, t) ==
    IF t = <<>> THEN FALSE
    ELSE IF s = <<>> THEN TRUE
    ELSE IF Head(s) = Head(t) THEN StrLess(Tail(s), Tail(t))
    ELSE Ord(Head(s)) < Ord(Head(t))

\* str.lower() and str.upper(), character by character.
LowerChar(c) ==
    IF \E i \in 1..Len(Uppers) : Uppers[i] = c
    THEN Lowers[CHOOSE i \in 1..Len(Uppers) : Uppers[i] = c] ELSE c

UpperChar(c) ==
    IF \E i \in 1..Len(Lowers) : Lowers[i] = c
    THEN Uppers[CHOOSE i \in 1..Len(Lowers) : Lowers[i] = c] ELSE c

Lower(s) == [i \in 1..Len(s) |-> LowerChar(s[i])]
Upper(s) == [i \in 1..Len(s) |-> UpperChar(s[i])]

\* str.strip(): leading and trailing blanks removed.
RECURSIVE LStrip(_)
LStrip(s) == IF s # <<>> /\ Head(s) = " " THEN LStrip(Tail(s)) ELSE s

RECURSIVE RStrip(_)
RStrip(s) ==
    IF s # <<>> /\ s[Len(s)] = " " THEN RStrip(SubSeq(s, 1, Len(s) - 1)) ELSE s

Strip(s) == RStrip(LStrip(s))

\* s.split(sep) for a one-character sep: always at least one piece.
RECURSIVE SplitAcc(_, _, _)
SplitAcc(s, sep, cur) ==
    IF s = <<>> THEN <<cur>>
    ELSE IF Head(s) = sep THEN <<cur>> \o SplitAcc(Tail(s), sep, <<>>)
    ELSE SplitAcc(Tail(s), sep, Append(cur, Head(s)))

Split(s, sep) == SplitAcc(s, sep, <<>>)

\* sep.join(parts)
RECURSIVE Join(_, _)
Join(parts, sep) ==
    IF parts = <<>> THEN <<>>
    ELSE IF Len(parts) = 1 THEN parts[1]
    ELSE parts[1] \o sep \o Join(Tail(parts), sep)

\* s.startswith(p)
StartsWith(s, p) == Len(p) <= Len(s) /\ SubSeq(s, 1, Len(p)) = p

\* s.startswith(tuple(ps))
StartsWithAny(s, ps) == \E i \in 1..Len(ps) : StartsWith(s, ps[i])

----------------------------------------------------------------------------
(* Sequences *)

Range(s) == {s[i] : i \in 1..Len(s)}

\* The elements of s in order, each at its first occurrence only.
RECURSIVE Unique(_)
Unique(s) ==
    IF s = <<>> THEN <<>>
    ELSE LET init == Unique(SubSeq(s, 1, Len(s) - 1))
             last == s[Len(s)]
         IN IF last \in Range(init) THEN init ELSE Append(init, last)

RECURSIVE Concat(_)
Concat(ss) == IF ss = <<>> THEN <<>> ELSE Head(ss) \o Concat(Tail(ss))

\* All sequences over S of length at most n.
SeqsUpTo(S, n) == UNION {[1..k -> S] : k \in 0..n}

\* The orderings of the finite set S.
Perms(S) == {p \in [1..Cardinality(S) -> S] : Range(p) = S}

----------------------------------------------------------------------------
(* src/app.py: load_data *)

\* pd.read_csv: an empty field is read as NaN, any other field as its text.
ReadCell(text) == IF text = <<>> THEN NaN ELSE text

\* Series.fillna("")
FillNa(cell) == IF cell = NaN THEN <<>> ELSE cell

\* [x.strip() for x in s.split(";") if x.strip()]
StripNonEmpty(parts) ==
    LET stripped == [i \in 1..Len(parts) |-> Strip(parts[i])]
    IN SelectSeq(stripped, LAMBDA x : x # <<>>)

\* split_list applied to one cell of the column.
split_list(cell) == StripNonEmpty(Split(FillNa(cell), ";"))

\* DataFrame.explode on one row: one row per element, one NaN row for [].
ExplodeRow(row, col, list) ==
    IF list = <<>> THEN <<[row EXCEPT ![col] = NaN]>>
    ELSE [i \in 1..Len(list) |-> [row EXCEPT ![col] = list[i]]]

\* Mutant of ExplodeBoth: the two lists exploded together, the k-th name
\* with the k-th code, as explode(["ci_name", "for_code"]) pairs them.
ExplodeBothZipped(table) ==
    LET assigned == [i \in 1..Len(table) |->
            [code |-> table[i].code,
             ci_name |-> split_list(table[i].chief_investigators),
             for_code |-> split_list(table[i].for_all_codes)]]
        least(a, b) == IF a < b THEN a ELSE b
        zipped(r) ==
            IF r.ci_name = <<>> \/ r.for_code = <<>>
            THEN <<[r EXCEPT !.ci_name = NaN, !.for_code = NaN]>>
            ELSE [k \in 1..least(Len(r.ci_name), Len(r.for_code)) |->
                     [r EXCEPT !.ci_name = r.ci_name[k],
                               !.for_code = r.for_code[k]]]
    IN Concat([i \in 1..Len(assigned) |-> zipped(assigned[i])])

\* df.assign(ci_name=..., for_code=...).explode("ci_name").explode("for_code")
ExplodeBoth(table) ==
    LET assigned == [i \in 1..Len(table) |->
            [code |-> table[i].code,
             ci_name |-> split_list(table[i].chief_investigators),
             for_code |-> split_list(table[i].for_all_codes)]]
        byCi == Concat([i \in 1..Len(assigned) |->
            ExplodeRow(assigned[i], "ci_name", assigned[i].ci_name)])
    IN Concat([i \in 1..Len(byCi) |->
            ExplodeRow(byCi[i], "for_code", byCi[i].for_code)])

\* Mutant of DropBlanks: the filter on ci_name left out.
DropBlanksCodesOnly(rows) ==
    SelectSeq(rows, LAMBDA r : r.for_code # NaN /\ Len(r.for_code) > 0)

\* The two "drop blanks" filters of load_data.
DropBlanks(rows) ==
    LET named == SelectSeq(rows, LAMBDA r : r.ci_name # NaN /\ Len(r.ci_name) > 0)
    IN SelectSeq(named, LAMBDA r : r.for_code # NaN /\ Len(r.for_code) > 0)

\* The long form returned by load_data.
load_data(table) == DropBlanks(ExplodeBoth(table))

\* [c.strip() for c in str(cell).split(";") if c.strip()]
StripSplit(cell) == StripNonEmpty(Split(cell, ";"))

\* zip(codes, name_list) of one row of the table: nothing for a row whose
\* for_all_codes or for_all_names is NaN, else the k-th code with the k-th
\* name, as far as the shorter list goes.
CodeNamePairs(row) ==
    IF row.for_all_codes = NaN \/ row.for_all_names = NaN THEN <<>>
    ELSE LET codes == StripSplit(row.for_all_codes)
             name_list == StripSplit(row.for_all_names)
             n == IF Len(codes) < Len(name_list)
                  THEN Len(codes) ELSE Len(name_list)
         IN [k \in 1..n |-> [key |-> codes[k], name |-> name_list[k]]]

\* dict.setdefault over a sequence of (key, name): the first name of each
\* key, the keys in the order of their first occurrence.
RECURSIVE SetDefaults(_)
SetDefaults(pairs) ==
    IF pairs = <<>> THEN <<>>
    ELSE LET init == SetDefaults(SubSeq(pairs, 1, Len(pairs) - 1))
             last == pairs[Len(pairs)]
         IN IF \E i \in 1..Len(init) : init[i].key = last.key
            THEN init ELSE Append(init, last)

\* for_code_to_name as load_data builds it.
for_code_to_name(table) ==
    SetDefaults(Concat([i \in 1..Len(table) |-> CodeNamePairs(table[i])]))

\* for_2digit_to_name: code[:2] of every key of at least two characters,
\* with the name of the first such key (no name of the model holds the
\* long dash the label is cut at).
for_2digit_to_name(code_to_name) ==
    LET long == SelectSeq(code_to_name, LAMBDA e : Len(e.key) >= 2)
    IN SetDefaults([i \in 1..Len(long) |->
           [key |-> SubSeq(long[i].key, 1, 2), name |-> long[i].name]])

\* The keys of a dict.
Keys(dict) == {dict[i].key : i \in 1..Len(dict)}

----------------------------------------------------------------------------
(* src/app.py: get_ranked_cis *)

TOP_K == 30

\* filt[filt["for_code"].isin(selected_codes)]
FilterCodes(rows, selected_codes) ==
    SelectSeq(rows, LAMBDA r : r.for_code \in Range(selected_codes))

\* Mutant of FilterPrefix: the prefixes compared for equality (isin) instead
\* of startswith.
FilterPrefixExact(rows, selected_2digit_codes) ==
    SelectSeq(rows, LAMBDA r : r.for_code \in Range(selected_2digit_codes))

\* filt[filt["for_code"].str.startswith(tuple(selected_2digit_codes))]
FilterPrefix(rows, selected_2digit_codes) ==
    SelectSeq(rows, LAMBDA r : StartsWithAny(r.for_code, selected_2digit_codes))

\* Mutant of ApplyFilters: the two selectors unioned instead of applied one
\* after the other.
ApplyFiltersUnion(rows, selected_codes, selected_2digit_codes) ==
    SelectSeq(rows, LAMBDA r :
        \/ r.for_code \in Range(selected_codes)
        \/ StartsWithAny(r.for_code, selected_2digit_codes))

\* The two filter passes shared by get_ranked_cis and get_ci_detail: each
\* non-empty selector narrows what the one before it left.
ApplyFilters(rows, selected_codes, selected_2digit_codes) ==
    LET f1 == IF selected_codes # <<>>
              THEN FilterCodes(rows, selected_codes) ELSE rows
    IN IF selected_2digit_codes # <<>>
       THEN FilterPrefix(f1, selected_2digit_codes) ELSE f1

\* drop_duplicates(subset=["ci_name", "code"]): first occurrence kept.
RECURSIVE DropDuplicates(_)
DropDuplicates(rows) ==
    IF rows = <<>> THEN <<>>
    ELSE LET init == DropDuplicates(SubSeq(rows, 1, Len(rows) - 1))
             last == rows[Len(rows)]
         IN IF \E i \in 1..Len(init) :
                   init[i].ci_name = last.ci_name /\ init[i].code = last.code
            THEN init ELSE Append(init, last)

\* The sorted sequence of the strings of the finite set S (groupby sorts keys).
RECURSIVE SortedStrings(_)
SortedStrings(S) ==
    IF S = {} THEN <<>>
    ELSE LET m == CHOOSE x \in S : \A y \in S \ {x} : StrLess(x, y)
         IN <<m>> \o SortedStrings(S \ {m})

\* groupby("ci_name")["code"].nunique().reset_index(name="num_projects"):
\* one entry per name, names ascending, NaN codes not counted.
GroupNunique(rows) ==
    LET names == SortedStrings({rows[i].ci_name : i \in 1..Len(rows)})
    IN [k \in 1..Len(names) |->
          [ci_name |-> names[k],
           num_projects |-> Cardinality({rows[i].code : i \in
               {j \in 1..Len(rows) : rows[j].ci_name = names[k]
                                     /\ rows[j].code # NaN}})]]

\* Mutant of sort_values: ascending=False forgotten.
sort_values_ascending(groups) ==
    {[i \in 1..Len(groups) |-> groups[p[i]]] : p \in
        {q \in Perms(1..Len(groups)) : \A i, j \in 1..Len(groups) :
            i < j => groups[q[i]].num_projects <= groups[q[j]].num_projects}}

\* sort_values("num_projects", ascending=False) with the default sort kind
\* (quicksort, not stable): every ordering with non-increasing counts.
sort_values(groups) ==
    {[i \in 1..Len(groups) |-> groups[p[i]]] : p \in
        {q \in Perms(1..Len(groups)) : \A i, j \in 1..Len(groups) :
            i < j => groups[q[i]].num_projects >= groups[q[j]].num_projects}}

\* DataFrame.head(n)
head(s, n) == SubSeq(s, 1, IF Len(s) < n THEN Len(s) ELSE n)

\* Mutant of OverallRows: the overall ranking taken from the long form, which
\* holds classified records only.
OverallRowsFromLong(table) == load_data(table)

\* Mutant of OverallRows: the rows deduplicated on the name alone, one row
\* per investigator left.
OverallRowsOnePerName(table) ==
    LET byCi == Concat([i \in 1..Len(table) |->
            ExplodeRow([code |-> table[i].code, ci_name |-> <<>>], "ci_name",
                       split_list(table[i].chief_investigators))])
        named == SelectSeq(byCi, LAMBDA r : r.ci_name # NaN)
    IN SelectSeq([i \in 1..Len(named) |-> [named[i] EXCEPT !.code =
                     IF \E j \in 1..(i - 1) : named[j].ci_name = named[i].ci_name
                     THEN NaN ELSE named[i].code]],
                 LAMBDA r : r.code # NaN)

\* The overall branch: df exploded by investigator only, NaN names dropped.
OverallRows(table) ==
    LET byCi == Concat([i \in 1..Len(table) |->
            ExplodeRow([code |-> table[i].code, ci_name |-> <<>>], "ci_name",
                       split_list(table[i].chief_investigators))])
    IN SelectSeq(byCi, LAMBDA r : r.ci_name # NaN)

\* groupby("ci_name").size(): the rows of each name, names ascending.
GroupSize(rows) ==
    LET names == SortedStrings({rows[i].ci_name : i \in 1..Len(rows)})
    IN [k \in 1..Len(names) |->
          [ci_name |-> names[k],
           num_projects |->
               Cardinality({j \in 1..Len(rows) : rows[j].ci_name = names[k]})]]

\* Mutant of RankGroups: long-form rows counted per investigator, without the
\* deduplication on (ci_name, code).
RankGroupsRowCount(table, long, selected_codes, selected_2digit_codes) ==
    IF selected_codes = <<>> /\ selected_2digit_codes = <<>>
    THEN GroupNunique(OverallRows(table))
    ELSE GroupSize(ApplyFilters(long, selected_codes, selected_2digit_codes))

\* The groups get_ranked_cis sorts, before sort_values and head.
RankGroups(table, long, selected_codes, selected_2digit_codes) ==
    IF selected_codes = <<>> /\ selected_2digit_codes = <<>>
    THEN GroupNunique(OverallRows(table))
    ELSE GroupNunique(DropDuplicates(
             ApplyFilters(long, selected_codes, selected_2digit_codes)))

\* Mutant of get_ranked_cis: a filter that leaves no group is answered as
\* the missing data is.
get_ranked_cis_empty_is_error(table, long, selected_codes, selected_2digit_codes, top_k) ==
    IF RankGroups(table, long, selected_codes, selected_2digit_codes) = <<>>
    THEN {[op |-> "rank", status |-> 500, error |-> "Data not loaded",
           selected_codes |-> selected_codes,
           selected_2digit_codes |-> selected_2digit_codes,
           top_k |-> top_k, ranked_cis |-> <<>>, is_overall |-> FALSE]}
    ELSE {[op |-> "rank",
           status |-> 200,
           selected_codes |-> selected_codes,
           selected_2digit_codes |-> selected_2digit_codes,
           top_k |-> top_k,
           ranked_cis |-> head(s, top_k),
           is_overall |-> (selected_codes = <<>> /\ selected_2digit_codes = <<>>)] :
          s \in sort_values(RankGroups(table, long, selected_codes,
                                       selected_2digit_codes))}

\* The answers get_ranked_cis can give; selected_codes, selected_2digit_codes
\* and top_k are kept with the answer to tell which request it answers.
get_ranked_cis(table, long, selected_codes, selected_2digit_codes, top_k) ==
    {[op |-> "rank",
      status |-> 200,
      selected_codes |-> selected_codes,
      selected_2digit_codes |-> selected_2digit_codes,
      top_k |-> top_k,
      ranked_cis |-> head(s, top_k),
      is_overall |-> (selected_codes = <<>> /\ selected_2digit_codes = <<>>)] :
     s \in sort_values(RankGroups(table, long, selected_codes,
                                  selected_2digit_codes))}

----------------------------------------------------------------------------
(* src/app.py: get_ci_detail *)

\* Series.str.contains(pat): a regular-expression search; of the
\* metacharacters only "." (any character) is modelled.
StrContains(text, pat) ==
    \E off \in 0..(Len(text) - Len(pat)) :
        \A j \in 1..Len(pat) : pat[j] = "." \/ pat[j] = text[off + j]

\* ["code"].dropna().astype(str).unique().tolist()
UniqueCodes(rows) ==
    Unique([i \in 1..Len(SelectSeq(rows, LAMBDA r : r.code # NaN)) |->
               SelectSeq(rows, LAMBDA r : r.code # NaN)[i].code])

\* Mutant of DetailBefore: sorted by year only, rows of one year left in the
\* order of the table.
DetailBeforeYearOnly(a, b) ==
    LET ya == a.funding_commencement_year
        yb == b.funding_commencement_year
    IN ya # yb /\ ((yb = NoNum) \/ (ya # NoNum /\ ya > yb))

\* Row a sorts strictly before row b under
\* sort_values(["funding_commencement_year", "code"], ascending=[False, True]);
\* a NaN year sorts last.
DetailBefore(a, b) ==
    LET ya == a.funding_commencement_year
        yb == b.funding_commencement_year
    IN IF ya # yb
       THEN (yb = NoNum) \/ (ya # NoNum /\ ya > yb)
       ELSE StrLess(a.code, b.code)

\* Stable insertion of row r into the sorted rows s.
RECURSIVE InsertStable(_, _)
InsertStable(s, r) ==
    IF s = <<>> THEN <<r>>
    ELSE IF DetailBefore(r, s[Len(s)])
         THEN Append(InsertStable(SubSeq(s, 1, Len(s) - 1), r), s[Len(s)])
         ELSE Append(s, r)

\* The stable multi-key sort of get_ci_detail.
RECURSIVE SortDetail(_)
SortDetail(rows) ==
    IF rows = <<>> THEN <<>>
    ELSE InsertStable(SortDetail(SubSeq(rows, 1, Len(rows) - 1)), rows[Len(rows)])

\* The project codes get_ci_detail selects for ci_name.
DetailCodes(table, long, ci_name, selected_codes, selected_2digit_codes) ==
    IF selected_codes = <<>> /\ selected_2digit_codes = <<>>
    THEN UniqueCodes(SelectSeq(table, LAMBDA r :
             StrContains(FillNa(r.chief_investigators), ci_name)))
    ELSE UniqueCodes(SelectSeq(
             ApplyFilters(long, selected_codes, selected_2digit_codes),
             LAMBDA r : r.ci_name = ci_name))

\* The answer of get_ci_detail.
get_ci_detail(table, long, ci_name, selected_codes, selected_2digit_codes) ==
    LET codes == DetailCodes(table, long, ci_name, selected_codes,
                             selected_2digit_codes)
        rows == SortDetail(SelectSeq(table, LAMBDA r : r.code \in Range(codes)))
    IN [op |-> "detail",
        status |-> 200,
        ci_name |-> ci_name,
        selected_codes |-> selected_codes,
        selected_2digit_codes |-> selected_2digit_codes,
        \* "if not codes": the early answer holds "projects" only
        has_ci_name |-> codes # <<>>,
        projects |-> [i \in 1..Len(rows) |->
            [code |-> rows[i].code, year |-> rows[i].funding_commencement_year]]]

----------------------------------------------------------------------------
(* The ranking service: the tables it is started on and its requests *)

\* Bounds of the ranking model.
MaxRows == 2
SmallTopK == 1

Smith == <<"S">>
Doe == <<"D">>
A123 == <<"A">>
B456 == <<"B">>
F0801 == <<"0", "8", "0", "1">>
F4602 == <<"4", "6", "0", "2">>
P08 == <<"0", "8">>
P46 == <<"4", "6">>

\* The chief-investigator lists of the exported records: none, one name, two
\* names, and a list with a repeated name and an investigator without a name.
NameLists == {<<>>, <<Smith>>, <<Smith, Doe>>, <<Doe, <<>>, Doe>>}

\* The classification-code lists of the exported records.
ForLists == {<<>>, <<F0801>>, <<F0801, F4602>>}

\* One row of the CSV as the crawler writes it ("; "-joined cells) and
\* pd.read_csv reads it.
CsvRowNamed(code, year, names, fors, forNames) ==
    [code |-> ReadCell(code),
     funding_commencement_year |-> year,
     chief_investigators |-> ReadCell(Join(names, <<";", " ">>)),
     for_all_codes |-> ReadCell(Join(fors, <<";", " ">>)),
     for_all_names |-> ReadCell(Join(forNames, <<";", " ">>))]

\* The name the rows of the model give a classification code.
NameOfCode(c) == <<"N">> \o c

\* A row whose classification entries all have a code and a name.
CsvRow(code, year, names, fors) ==
    CsvRowNamed(code, year, names, fors,
                [i \in 1..Len(fors) |-> NameOfCode(fors[i])])

RankRows ==
    {CsvRow(A123, 2020, n, f) : n \in NameLists, f \in ForLists}
    \cup {CsvRow(B456, 2021, n, f) : n \in NameLists, f \in ForLists}
    \cup {CsvRow(<<>>, NoNum, <<Smith>>, <<F0801>>)}

SelectedCodes == {<<>>, <<F0801>>, <<F0801, F4602>>}
SelectedPrefixes == {<<>>, <<P46>>, <<P08, P46>>}
\* The values of top_k: TOP_K as app.py configures it, and small values (top_k
\* is a parameter of generate_essential_rankings) under which head() cuts the
\* rankings of small tables.
TopKs == (1..SmallTopK) \cup {TOP_K}
JDoe == <<"J", " ", "D">>
JDotDoe == <<"J", ".", "D">>
\* The names asked of get_ci_detail.
CiNames == {Smith, Doe, JDotDoe}

NoResp == [op |-> "none"]

\* The values of the variables of the components a specification leaves out.
NoFile == <<[file |-> "not written"]>>
\* No session.get() under way.
NoReq == [state |-> "none", statuses |-> <<>>, backoffs |-> <<>>]
\* The module-level code of app.py: before the load, after a load that
\* succeeded, after a load that raised (df and exploded are None then).
NotStarted == [state |-> "starting", error |-> "none"]
Loaded == [state |-> "loaded", error |-> "none"]
NotLoaded(e) == [state |-> "not loaded", error |-> e]

\* The module-level "try" branch on a table that read_csv returns.
LoadSucceeds(table) ==
    /\ df' = table
    /\ exploded' = load_data(table)
    /\ choices' = SortedStrings(Keys(for_code_to_name(table)))
    /\ two_digit_choices' =
          SortedStrings(Keys(for_2digit_to_name(for_code_to_name(table))))
    /\ startup' = Loaded

\* The state a successful startup on table leaves.
StartedOn(table) ==
    /\ df = table
    /\ exploded = load_data(table)
    /\ choices = SortedStrings(Keys(for_code_to_name(table)))
    /\ two_digit_choices =
          SortedStrings(Keys(for_2digit_to_name(for_code_to_name(table))))
    /\ startup = Loaded

RankIdle ==
    /\ df = <<>> /\ exploded = <<>> /\ resp = NoResp
    /\ startup = [state |-> "idle", error |-> "none"]
    /\ choices = <<>> /\ two_digit_choices = <<>>
    /\ ranked_cis_json = NoFile
CiIdle ==
    /\ rec = [investigators_current |-> <<>>, investigators_announcement |-> <<>>]
    /\ cis = [called |-> FALSE, out |-> <<>>]
CrawlIdle ==
    /\ args = [max_pages |-> NoNum, year_from |-> NoNum, year_to |-> NoNum,
               sleep |-> 0]
    /\ pc = "idle" /\ page = 0 /\ total_pages_seen = NoNum
    /\ dp_ids = <<>> /\ listed = {} /\ idx = 0 /\ results = <<>>
    /\ outcomes = <<>> /\ errlog = <<>> /\ out_json = NoFile /\ out_csv = NoFile
    /\ sleeps = <<>> /\ reported = NoNum /\ page_failed = FALSE
    /\ requested = <<>>
    /\ ci_data = NoFile
GetIdle == req = NoReq

InitRank ==
    /\ \E table \in SeqsUpTo(RankRows, MaxRows) : StartedOn(table)
    /\ resp = NoResp /\ ranked_cis_json = NoFile
    /\ CiIdle /\ CrawlIdle /\ GetIdle

\* jsonify({"error": "Data not loaded"}), 500
DataNotLoaded == [op |-> "error", status |-> 500, error |-> "Data not loaded"]

\* The routes answer once the module-level code has run.
Serving == startup.state \in {"loaded", "not loaded"}

\* "exploded is None", "df is None": the load at startup raised.
IsNone == startup.state = "not loaded"

\* GET /api/ranked_cis: the handler runs from the request to its answer.
RankRequest ==
    /\ resp = NoResp /\ Serving
    /\ \E sc \in SelectedCodes, sp \in SelectedPrefixes, k \in TopKs :
          IF IsNone THEN resp' = DataNotLoaded
          ELSE resp' \in get_ranked_cis(df, exploded, sc, sp, k)
    /\ UNCHANGED <<loadVars, ranked_cis_json, ciVars, crawlVars, getVars>>

\* GET /api/ci_detail/<ci_name>
DetailRequest ==
    /\ resp = NoResp /\ Serving
    /\ \E name \in CiNames, sc \in SelectedCodes, sp \in SelectedPrefixes :
          IF IsNone THEN resp' = DataNotLoaded
          ELSE resp' = get_ci_detail(df, exploded, name, sc, sp)
    /\ UNCHANGED <<loadVars, ranked_cis_json, ciVars, crawlVars, getVars>>

\* The answer is sent; the server (one request at a time) waits for the next.
SendResponse ==
    /\ resp # NoResp
    /\ resp' = NoResp
    /\ UNCHANGED <<loadVars, ranked_cis_json, ciVars, crawlVars, getVars>>

NextRank == RankRequest \/ DetailRequest \/ SendResponse

SpecRank == InitRank /\ [][NextRank]_vars

\* A second set of tables for the service: a record with two investigators
\* and three codes, records of one year, a record without year, without
\* investigator, without code, an investigator listed under two spellings.
C789 == <<"C">>
F0802 == <<"0", "8", "0", "2">>
TableRows ==
    {CsvRow(A123, 2020, <<Smith, Doe>>, <<F0801, F4602, F0802>>),
     CsvRow(B456, 2020, <<Smith>>, <<F0801>>),
     CsvRow(B456, 2021, <<JDoe, Smith>>, <<F4602>>),
     CsvRow(C789, 2021, <<>>, <<F0801, F4602>>),
     CsvRow(C789, NoNum, <<Doe>>, <<>>),
     CsvRow(C789, 2020, <<JDotDoe>>, <<F0801, F0801>>),
     CsvRow(A123, NoNum, <<Doe, Smith, Doe>>, <<F4602>>),
     CsvRow(<<>>, 2020, <<Smith>>, <<F0801>>)}

InitTable ==
    /\ \E table \in SeqsUpTo(TableRows, MaxRows) : StartedOn(table)
    /\ resp = NoResp /\ ranked_cis_json = NoFile
    /\ CiIdle /\ CrawlIdle /\ GetIdle

SpecTable == InitTable /\ [][NextRank]_vars

\* The service from its start: the input file the module-level code finds,
\* and all three routes.
ServiceRows ==
    {CsvRow(A123, 2020, <<Smith, Doe>>, <<F0801, F4602>>),
     CsvRow(B456, 2021, <<Smith>>, <<F0801>>),
     CsvRowNamed(C789, 2020, <<Doe>>, <<F0802>>, <<>>),
     CsvRowNamed(B456, 2020, <<Doe>>, <<F0801, F4602>>, <<NameOfCode(F0801)>>),
     CsvRow(C789, 2021, <<Smith>>, <<>>)}

\* What the startup can find at INPUT_CSV: no file, a file read_csv or the
\* column lookups of load_data raise on, a table.
InputFiles ==
    {[kind |-> "missing", rows |-> <<>>], [kind |-> "malformed", rows |-> <<>>]}
    \cup {[kind |-> "table", rows |-> t] : t \in SeqsUpTo(ServiceRows, MaxRows)}

InitService ==
    /\ startup = NotStarted
    /\ df = <<>> /\ exploded = <<>> /\ choices = <<>> /\ two_digit_choices = <<>>
    /\ resp = NoResp /\ ranked_cis_json = NoFile
    /\ CiIdle /\ CrawlIdle /\ GetIdle

\* "Load data once at startup": load_data() in try / except Exception, which
\* prints the error and leaves None and empty defaults; the module goes on
\* to define and serve its routes.
Startup ==
    /\ startup.state = "starting"
    /\ \E input \in InputFiles :
          IF input.kind = "table" THEN LoadSucceeds(input.rows)
          ELSE /\ startup' = NotLoaded(IF input.kind = "missing"
                                       THEN "Input CSV not found"
                                       ELSE "read_csv or column lookup raised")
               /\ df' = <<>> /\ exploded' = <<>>
               /\ choices' = <<>> /\ two_digit_choices' = <<>>
    /\ UNCHANGED <<resp, ranked_cis_json, ciVars, crawlVars, getVars>>

\* GET /api/for_codes: the two lists of choices (the labels are left out).
ForCodesRequest ==
    /\ resp = NoResp /\ Serving
    /\ resp' = [op |-> "for_codes", status |-> 200,
                specific_codes |-> choices,
                two_digit_codes |-> two_digit_choices]
    /\ UNCHANGED <<loadVars, ranked_cis_json, ciVars, crawlVars, getVars>>

NextService ==
    \/ Startup
    \/ ForCodesRequest
    \/ RankRequest
    \/ DetailRequest
    \/ SendResponse

SpecService == InitService /\ [][NextService]_vars

----------------------------------------------------------------------------
(* src/simple_build.py: load_and_process_data, ranked_cis.json *)

\* The names of the chief_investigators cells, in table order, once per
\* occurrence: the "for ci in cis" of the loop over the cells that are not NaN.
CiOccurrences(table) ==
    Concat([i \in 1..Len(table) |->
        IF table[i].chief_investigators = NaN THEN <<>>
        ELSE StripSplit(table[i].chief_investigators)])

\* ci_counts: ci_counts.get(ci, 0) + 1 per occurrence, keys in the order of
\* their first occurrence.
ci_counts(table) ==
    LET occ == CiOccurrences(table)
        keys == Unique(occ)
    IN [k \in 1..Len(keys) |->
          [ci_name |-> keys[k],
           num_projects |-> Cardinality({j \in 1..Len(occ) : occ[j] = keys[k]})]]

\* sorted(items, key=lambda x: x[1], reverse=True): stable, equal counts
\* keep the order of items.
RECURSIVE sorted_by_count(_)
sorted_by_count(items) ==
    IF items = <<>> THEN <<>>
    ELSE LET init == sorted_by_count(SubSeq(items, 1, Len(items) - 1))
             last == items[Len(items)]
             before == SelectSeq(init, LAMBDA e : e.num_projects >= last.num_projects)
             after == SelectSeq(init, LAMBDA e : e.num_projects < last.num_projects)
         IN before \o <<last>> \o after

\* top_cis, as written to ranked_cis.json.
top_cis(table) == head(sorted_by_count(ci_counts(table)), 30)

\* python simple_build.py on the CSV the service is started on.
SimpleBuild ==
    /\ ranked_cis_json = NoFile
    /\ ranked_cis_json' = top_cis(df)
    /\ UNCHANGED <<loadVars, resp, ciVars, crawlVars, getVars>>

NextStatic ==
    \/ SimpleBuild
    \/ RankRequest
    \/ SendResponse

SpecStatic == InitTable /\ [][NextStatic]_vars

----------------------------------------------------------------------------
(* Claims about the ranking service *)

\* The investigators and classification codes a table row lists.
ListedNames(row) == Range(split_list(row.chief_investigators))
ListedCodes(row) == Range(split_list(row.for_all_codes))
AllNames(table) == UNION {ListedNames(table[i]) : i \in 1..Len(table)}

\* A classification code passes the filter: every non-empty selector accepts it.
Passes(c, sc, sp) ==
    /\ sc # <<>> => \E i \in 1..Len(sc) : sc[i] = c
    /\ sp # <<>> => \E i \in 1..Len(sp) : Len(sp[i]) <= Len(c)
                       /\ \A j \in 1..Len(sp[i]) : c[j] = sp[i][j]

\* The records that list name and carry a code passing the filter.
MatchingRecords(table, name, sc, sp) ==
    {i \in 1..Len(table) : /\ name \in ListedNames(table[i])
                           /\ \E c \in ListedCodes(table[i]) : Passes(c, sc, sp)}

\* The distinct project codes of a set of records.
ProjectCodesOf(table, recs) == {table[i].code : i \in recs} \ {NaN}

\* The distinct project codes of all records listing name.
AllProjectsOf(table, name) ==
    ProjectCodesOf(table, {i \in 1..Len(table) : name \in ListedNames(table[i])})

RankedNames == {resp.ranked_cis[i].ci_name : i \in 1..Len(resp.ranked_cis)}

IsRank == resp.op = "rank"
IsFiltered == resp.selected_codes # <<>> \/ resp.selected_2digit_codes # <<>>

\* C1: for a non-empty filter, the count rank reports for an investigator is
\* the number of distinct project codes of the records that list the
\* investigator and carry at least one classification code passing the filter.
C1_FilteredCountIsDistinctProjects ==
    (IsRank /\ IsFiltered) =>
        \A i \in 1..Len(resp.ranked_cis) :
            resp.ranked_cis[i].num_projects =
                Cardinality(ProjectCodesOf(df,
                    MatchingRecords(df, resp.ranked_cis[i].ci_name,
                        resp.selected_codes, resp.selected_2digit_codes)))

\* C1 witness: the example of the specification, A123 (Smith, Doe; 0801, 4602)
\* and B456 (Smith; 0801), ranked under ["0801"]: Smith 2, Doe 1.
C1_Witness ==
    /\ df = <<CsvRow(A123, 2020, <<Smith, Doe>>, <<F0801, F4602>>),
              CsvRow(B456, 2021, <<Smith>>, <<F0801>>)>>
    /\ IsRank
    /\ resp.selected_codes = <<F0801>> /\ resp.selected_2digit_codes = <<>>
    /\ resp.ranked_cis = <<[ci_name |-> Smith, num_projects |-> 2],
                           [ci_name |-> Doe, num_projects |-> 1]>>

\* C2: with both selectors empty the answer is tagged overall and counts, per
\* investigator, the distinct project codes of all records listing them,
\* classified or not; with a selector given the answer is tagged not overall.
C2_OverallIgnoresClassification ==
    IsRank =>
        /\ resp.is_overall = ~IsFiltered
        /\ ~IsFiltered =>
              /\ \A i \in 1..Len(resp.ranked_cis) :
                    resp.ranked_cis[i].num_projects =
                        Cardinality(AllProjectsOf(df, resp.ranked_cis[i].ci_name))
              /\ RankedNames \subseteq AllNames(df)
              /\ Len(resp.ranked_cis) < resp.top_k => RankedNames = AllNames(df)

\* C2 witness: an overall ranking that counts a record without any
\* classification code.
C2_Witness ==
    /\ IsRank /\ resp.is_overall
    /\ \E i \in 1..Len(resp.ranked_cis), r \in 1..Len(df) :
          /\ resp.ranked_cis[i].ci_name \in ListedNames(df[r])
          /\ ListedCodes(df[r]) = {}
          /\ df[r].code # NaN
          /\ resp.ranked_cis[i].num_projects = 2

\* The count the claims expect for name under the filter of the answer.
ExpectedCount(name) ==
    IF IsFiltered
    THEN Cardinality(ProjectCodesOf(df, MatchingRecords(df, name,
             resp.selected_codes, resp.selected_2digit_codes)))
    ELSE Cardinality(AllProjectsOf(df, name))

\* C3: the ranking has at most top_k entries, counts non-increasing, every
\* investigator at most once, and nobody left out has a strictly larger count
\* than somebody listed.
C3_TopKSortedDistinct ==
    IsRank =>
        LET r == resp.ranked_cis
        IN /\ Len(r) <= resp.top_k
           /\ \A i, j \in 1..Len(r) : i < j => r[i].num_projects >= r[j].num_projects
           /\ \A i, j \in 1..Len(r) : i # j => r[i].ci_name # r[j].ci_name
           /\ \A n \in AllNames(df) \ RankedNames : \A i \in 1..Len(r) :
                 ExpectedCount(n) <= r[i].num_projects

\* C3 witness: a ranking cut at top_k = 1 that leaves out an investigator with
\* a project, the listed one having more.
C3_Witness ==
    /\ IsRank /\ resp.top_k = 1 /\ Len(resp.ranked_cis) = 1
    /\ resp.ranked_cis[1].num_projects = 2
    /\ \E n \in AllNames(df) \ RankedNames : ExpectedCount(n) = 1

\* C4: with prefixes only, an investigator is ranked (before truncation) iff a
\* project listing them carries a code starting with one of the prefixes.
C4_PrefixFilterAlone ==
    (IsRank /\ resp.selected_codes = <<>> /\ resp.selected_2digit_codes # <<>>) =>
        LET hit == {n \in AllNames(df) : \E i \in 1..Len(df) :
                       /\ n \in ListedNames(df[i])
                       /\ \E c \in ListedCodes(df[i]) :
                             \E k \in 1..Len(resp.selected_2digit_codes) :
                                 StartsWith(c, resp.selected_2digit_codes[k])}
        IN /\ RankedNames \subseteq hit
           /\ Len(resp.ranked_cis) < resp.top_k => RankedNames = hit

\* C4 witness: prefix 46 alone ranks an investigator through code 4602 and
\* leaves out one whose only project carries 0801.
C4_Witness ==
    /\ IsRank /\ resp.selected_codes = <<>> /\ resp.selected_2digit_codes = <<P46>>
    /\ resp.top_k = TOP_K
    /\ Doe \in RankedNames
    /\ Smith \in AllNames(df) \ RankedNames

\* C5: with both selectors given, rank and detail keep the long-form rows whose
\* code is in selected_codes and starts with a selected prefix (intersection).
C5_BothSelectorsIntersect ==
    (resp.op \in {"rank", "detail"}
        /\ resp.selected_codes # <<>> /\ resp.selected_2digit_codes # <<>>) =>
        LET both(c) == /\ c \in Range(resp.selected_codes)
                       /\ StartsWithAny(c, resp.selected_2digit_codes)
            recsOf(n) == {i \in 1..Len(df) : n \in ListedNames(df[i])
                             /\ \E c \in ListedCodes(df[i]) : both(c)}
        IN IF resp.op = "rank"
           THEN /\ \A i \in 1..Len(resp.ranked_cis) :
                      /\ recsOf(resp.ranked_cis[i].ci_name) # {}
                      /\ resp.ranked_cis[i].num_projects =
                            Cardinality(ProjectCodesOf(df,
                                recsOf(resp.ranked_cis[i].ci_name)))
                /\ Len(resp.ranked_cis) < resp.top_k =>
                      RankedNames = {n \in AllNames(df) : recsOf(n) # {}}
           ELSE {resp.projects[i].code : i \in 1..Len(resp.projects)} =
                    ProjectCodesOf(df, recsOf(resp.ci_name))

\* C5 witness: codes [0801] with prefixes [46] on a record carrying 0801 and
\* 4602: each selector alone matches it, both together match nothing.
C5_Witness ==
    /\ resp.op \in {"rank", "detail"}
    /\ resp.selected_codes = <<F0801>> /\ resp.selected_2digit_codes = <<P46>>
    /\ \E i \in 1..Len(df) :
          /\ Smith \in ListedNames(df[i]) /\ df[i].code # NaN
          /\ ListedCodes(df[i]) = {F0801, F4602}
    /\ IF resp.op = "rank" THEN resp.ranked_cis = <<>> ELSE resp.projects = <<>>

----------------------------------------------------------------------------
(* src/arc_dp_crawler.py: Investigator, GrantRecord.chief_investigators *)

CI == <<"C", "I">>
chief_investigator ==
    <<"c", "h", "i", "e", "f", " ", "i", "n", "v", "e", "s", "t", "i", "g", "a",
      "t", "o", "r">>

\* x or "" for an Optional[str]
OrEmpty(x) == IF x = None THEN <<>> ELSE x

\* The condition of the list comprehension of chief_investigators().
IsChief(inv) ==
    \/ Upper(OrEmpty(inv.role_code)) = CI
    \/ Lower(OrEmpty(inv.role_name)) = chief_investigator

\* Mutant of chief_investigators: the two lists merged.
chief_investigators_merged(r) ==
    SelectSeq(r.investigators_current \o r.investigators_announcement, IsChief)

\* GrantRecord.chief_investigators(): "a or b or []" takes the first non-empty
\* list.
chief_investigators(r) ==
    LET source == IF r.investigators_current # <<>>
                  THEN r.investigators_current
                  ELSE r.investigators_announcement
    IN SelectSeq(source, IsChief)

\* Investigator.full_name
full_name(inv) ==
    Join(SelectSeq(<<inv.title, inv.first_name, inv.family_name>>,
                   LAMBDA x : x # None /\ x # <<>>), <<" ">>)

\* Bound of the model of chief_investigators: investigators per list.
MaxInvs == 2

Inv(first, family, role_code, role_name, orcid) ==
    [title |-> None, first_name |-> first, family_name |-> family,
     role_name |-> role_name, role_code |-> role_code, orcid |-> orcid]

\* The investigators of the model: every way of being, or not being, a chief
\* investigator.
ByCode == Inv(<<"J">>, Smith, CI, None, <<"1">>)
ByLowerCode == Inv(None, Doe, <<"c", "i">>, <<"L", "e", "a", "d">>, None)
ByName == Inv(<<"R">>, Doe, <<"P", "I">>,
              <<"C", "h", "i", "e", "f", " ", "I", "n", "v", "e", "s", "t", "i",
                "g", "a", "t", "o", "r">>, <<"2">>)
ByUpperName == Inv(None, None, None,
              <<"C", "H", "I", "E", "F", " ", "I", "N", "V", "E", "S", "T", "I",
                "G", "A", "T", "O", "R">>, None)
Partner == Inv(<<"P">>, Smith, <<"P", "I">>,
              <<"P", "a", "r", "t", "n", "e", "r">>, <<"3">>)
NoRole == Inv(<<"N">>, Doe, None, None, None)

Investigators == {ByCode, ByLowerCode, ByName, ByUpperName, Partner, NoRole}

InitCI ==
    /\ rec \in [investigators_current : SeqsUpTo(Investigators, MaxInvs),
                investigators_announcement : SeqsUpTo(Investigators, MaxInvs)]
    /\ cis = [called |-> FALSE, out |-> <<>>]
    /\ RankIdle /\ CrawlIdle /\ GetIdle

\* rec.chief_investigators() is called (main() calls it for the JSON and the
\* CSV output).
CallChiefInvestigators ==
    /\ ~cis.called
    /\ cis' = [called |-> TRUE, out |-> chief_investigators(rec)]
    /\ UNCHANGED <<rec, rankVars, crawlVars, getVars>>

NextCI == CallChiefInvestigators

SpecCI == InitCI /\ [][NextCI]_vars

\* Equality of two strings without regard to case.
SameIgnoringCase(s, t) ==
    /\ Len(s) = Len(t)
    /\ \A i \in 1..Len(s) :
          \/ s[i] = t[i]
          \/ \E k \in 1..Len(Uppers) :
                {s[i], t[i]} = {Uppers[k], Lowers[k]}

\* C6: chief_investigators() takes its candidates from investigators_current
\* when that list is non-empty and else from investigators_announcement, and
\* returns, in list order, exactly the candidates whose role code is "CI" or
\* whose role name is "chief investigator", case-insensitively.
C6_ChiefInvestigatorsOneSource ==
    cis.called =>
        LET source == IF Len(rec.investigators_current) > 0
                      THEN rec.investigators_current
                      ELSE rec.investigators_announcement
            chief(inv) ==
                \/ inv.role_code # None /\ SameIgnoringCase(inv.role_code, CI)
                \/ inv.role_name # None
                   /\ SameIgnoringCase(inv.role_name, chief_investigator)
            kept == {i \in 1..Len(source) : chief(source[i])}
        IN /\ Len(cis.out) = Cardinality(kept)
           /\ \A k \in 1..Len(cis.out) :
                 \E i \in kept :
                    /\ cis.out[k] = source[i]
                    /\ Cardinality({j \in kept : j < i}) = k - 1

\* C6 witness: a non-empty current list whose chief investigator (by role
\* name only) is returned while a chief investigator of the announcement list
\* is not.
C6_Witness ==
    /\ cis.called
    /\ rec.investigators_current = <<Partner, ByName>>
    /\ rec.investigators_announcement = <<ByCode>>
    /\ cis.out = <<ByName>>

----------------------------------------------------------------------------
(* src/arc_dp_crawler.py: make_session and one session.get() *)

\* Retry(total=5, backoff_factor=0.5, status_forcelist=(429, 500, 502, 503,
\* 504), allowed_methods=("GET",))
RetryTotal == 5
status_forcelist == {429, 500, 502, 503, 504}

\* What one attempt of a GET can meet: a status, or no response within
\* timeout=30 (NoResponse).
NoResponse == 0
Statuses == {NoResponse, 200, 404, 429, 500, 501, 502, 503, 504}

\* Retry.is_retry for a GET without Retry-After header, and the retry of an
\* attempt without response.
is_retry(status) == status = NoResponse \/ status \in status_forcelist

\* Mutant of is_exhausted: the budget counted as attempts, not as retries.
is_exhausted_at_total(retries) == retries >= RetryTotal

\* Retry.is_exhausted after increment(): more retries asked than total.
is_exhausted(retries) == retries > RetryTotal

RECURSIVE Pow2(_)
Pow2(n) == IF n = 0 THEN 1 ELSE 2 * Pow2(n - 1)

\* Retry.get_backoff_time() before the n-th retry, in units of
\* backoff_factor: nothing before the first, then 2^(n-1).
get_backoff_time(n) == IF n <= 1 THEN 0 ELSE Pow2(n - 1)

\* Response.raise_for_status(): 4xx and 5xx raise HTTPError.
raises_for_status(status) == status >= 400 /\ status < 600

\* session.get(...) is called by fetch_page or fetch_detail.
GetSends ==
    /\ req.state = "none"
    /\ req' = [state |-> "sending", statuses |-> <<>>, backoffs |-> <<>>]
    /\ UNCHANGED <<rankVars, ciVars, crawlVars>>

\* An attempt meets a retried status (or no response) with budget left: the
\* adapter sleeps the backoff time and sends again.
GetRetries ==
    /\ req.state = "sending"
    /\ \E st \in Statuses :
          /\ is_retry(st)
          /\ ~is_exhausted(Len(req.statuses) + 1)
          /\ req' = [state |-> "sending",
                     statuses |-> Append(req.statuses, st),
                     backoffs |-> Append(req.backoffs,
                                     get_backoff_time(Len(req.statuses) + 1))]
    /\ UNCHANGED <<rankVars, ciVars, crawlVars>>

\* An attempt meets a retried status (or no response) with the budget used
\* up: MaxRetryError, which requests raises as RetryError / ConnectionError.
GetExhausted ==
    /\ req.state = "sending"
    /\ \E st \in Statuses :
          /\ is_retry(st)
          /\ is_exhausted(Len(req.statuses) + 1)
          /\ req' = [req EXCEPT !.state = "failed",
                                !.statuses = Append(req.statuses, st)]
    /\ UNCHANGED <<rankVars, ciVars, crawlVars>>

\* An attempt meets a status that is not retried: session.get() returns the
\* response, raise_for_status() raises on 4xx / 5xx, else resp.json() is
\* returned.
GetAnswered ==
    /\ req.state = "sending"
    /\ \E st \in Statuses :
          /\ ~is_retry(st)
          /\ req' = [req EXCEPT
                        !.state = IF raises_for_status(st)
                                  THEN "failed" ELSE "returned",
                        !.statuses = Append(req.statuses, st)]
    /\ UNCHANGED <<rankVars, ciVars, crawlVars>>

\* The caller goes on (with the data or the exception) to its next request.
GetDone ==
    /\ req.state \in {"returned", "failed"}
    /\ req' = NoReq
    /\ UNCHANGED <<rankVars, ciVars, crawlVars>>

InitGet == req = NoReq /\ RankIdle /\ CiIdle /\ CrawlIdle

NextGet == GetSends \/ GetRetries \/ GetExhausted \/ GetAnswered \/ GetDone

SpecGet == InitGet /\ [][NextGet]_vars

----------------------------------------------------------------------------
(* src/arc_dp_crawler.py: the listing endpoint and the discovery predicates *)

discovery_projects ==
    <<"d", "i", "s", "c", "o", "v", "e", "r", "y", " ", "p", "r", "o", "j", "e",
      "c", "t", "s">>
DiscoveryProjects ==
    <<"D", "i", "s", "c", "o", "v", "e", "r", "y", " ", "P", "r", "o", "j", "e",
      "c", "t", "s">>
LinkageProjects ==
    <<"L", "i", "n", "k", "a", "g", "e", " ", "P", "r", "o", "j", "e", "c", "t",
      "s">>

\* JSON values of a funding field: a number, a string, or the key absent.
Num(n) == [type |-> "number", val |-> n]
Str(n) == [type |-> "str", val |-> n]
Absent == [type |-> "absent", val |-> 0]

\* is_discovery_project(attributes)
is_discovery_project(attributes) ==
    Lower(Strip(OrEmpty(attributes.scheme_name))) = discovery_projects

\* Mutant of is_funded: a funding field counts as soon as it is present.
is_funded_if_present(attributes) ==
    \E key \in {"funding_at_announcement", "funding_current",
                "announced_funding_amount", "current_funding_amount"} :
        attributes[key].type = "number"

\* is_funded(attributes): some funding key holds an int or float > 0.
is_funded(attributes) ==
    \E key \in {"funding_at_announcement", "funding_current",
                "announced_funding_amount", "current_funding_amount"} :
        attributes[key].type = "number" /\ attributes[key].val > 0

\* Python truthiness of an Optional[int] option: None and 0 are false.
Truthy(n) == n # NoNum /\ n # 0

\* attributes.get("funding-commencement-year") or 0
YearOrZero(attributes) ==
    IF Truthy(attributes.funding_commencement_year)
    THEN attributes.funding_commencement_year ELSE 0

\* Mutant of Collects: the --year-from test left out.
CollectsNoYearFrom(a, attributes) ==
    /\ is_discovery_project(attributes)
    /\ ~(Truthy(a.year_to) /\ YearOrZero(attributes) > a.year_to)
    /\ is_funded(attributes)

\* The body of the for loop of the discovery: the item is not skipped by any
\* of its four "continue" tests.
Collects(a, attributes) ==
    /\ is_discovery_project(attributes)
    /\ ~(Truthy(a.year_from) /\ YearOrZero(attributes) < a.year_from)
    /\ ~(Truthy(a.year_to) /\ YearOrZero(attributes) > a.year_to)
    /\ is_funded(attributes)

\* The identifiers one page adds to dp_ids, in page order.
CollectedIds(a, items) ==
    LET kept == SelectSeq(items, LAMBDA it : Collects(a, it.attributes))
    IN [i \in 1..Len(kept) |-> kept[i].id]

ListItem(id, scheme, year, fa, fc, afa, cfa) ==
    [id |-> id,
     attributes |-> [scheme_name |-> scheme, funding_commencement_year |-> year,
                     funding_at_announcement |-> fa, funding_current |-> fc,
                     announced_funding_amount |-> afa,
                     current_funding_amount |-> cfa]]

\* The awards the listing endpoint knows, by identifier.
Awards ==
    <<ListItem(1, DiscoveryProjects, 2020, Absent, Num(5), Absent, Absent),
      ListItem(2, <<" ">> \o discovery_projects \o <<" ">>, 2010,
               Absent, Absent, Num(7), Num(0)),
      ListItem(3, DiscoveryProjects, NoNum, Num(3), Absent, Absent, Absent),
      ListItem(4, DiscoveryProjects, 2020, Absent, Num(0), Absent, Str(9)),
      ListItem(5, LinkageProjects, 2020, Num(4), Num(4), Absent, Absent)>>

AwardIds == 1..Len(Awards)

\* The "data" lists a listing page can hold.
ListingPages ==
    {<<>>} \cup {<<Awards[g]>> : g \in AwardIds} \cup {<<Awards[2], Awards[1]>>}

\* The values of meta "total-pages": absent, or a page count.
TotalPages == {NoNum, 1, 2}

----------------------------------------------------------------------------
(* src/arc_dp_crawler.py: the detail endpoint, parse_grant, the outputs *)

ForEntry(code, name, isPrimary) == [code |-> code, name |-> name, isPrimary |-> isPrimary]

Attrs(code, year, for, current, announcement) ==
    [code |-> code, scheme_name |-> DiscoveryProjects,
     funding_commencement_year |-> year, field_of_research |-> for,
     investigators_current |-> current,
     investigators_at_announcement |-> announcement]

\* data.attributes of the detail document of each award. The first lists its
\* classifications and investigators in an order that is not the sorted one;
\* the second has a classification name with "; " in it and a chief
\* investigator without ORCID before one with ORCID.
DetailAttributes ==
    <<Attrs(<<"D", "P", "1">>, 2020,
            <<ForEntry(F4602, <<"M", "L">>, FALSE), ForEntry(F0801, <<"A", "I">>, TRUE),
              ForEntry(F4602, <<"A", "I">>, TRUE)>>,
            <<ByName, Partner, ByCode>>, <<ByLowerCode>>),
      Attrs(<<"D", "P", "2">>, 2010,
            <<ForEntry(F4602, <<"M", ";", " ", "L">>, TRUE)>>,
            <<>>, <<ByLowerCode, NoRole, ByCode>>),
      Attrs(<<"D", "P", "3">>, NoNum, <<>>, <<ByUpperName>>, <<>>),
      Attrs(<<"D", "P", "4">>, 2020, <<ForEntry(F0801, None, TRUE)>>,
            <<Partner>>, <<ByCode>>),
      Attrs(<<"L", "P", "5">>, 2020, <<ForEntry(None, <<"A", "I">>, FALSE)>>,
            <<ByCode>>, <<>>)>>

\* (detail.get("data") or {}).get("attributes") or {}, read with .get():
\* every key of an empty dict reads None.
EmptyAttributes ==
    [code |-> None, scheme_name |-> None, funding_commencement_year |-> NoNum,
     field_of_research |-> <<>>, investigators_current |-> <<>>,
     investigators_at_announcement |-> <<>>]

\* The attributes of a detail document: complete, or without data/attributes.
AttributesOf(gid, kind) ==
    IF kind = "full" THEN DetailAttributes[gid] ELSE EmptyAttributes

\* parse_grant(attributes); the scalar fields copied as they are (status,
\* funding, organisation, summary) are left out.
parse_grant(attributes) ==
    [code |-> attributes.code,
     scheme_name |-> attributes.scheme_name,
     funding_commencement_year |-> attributes.funding_commencement_year,
     field_of_research |-> attributes.field_of_research,
     investigators_current |-> attributes.investigators_current,
     investigators_announcement |-> attributes.investigators_at_announcement]

\* The csv module writes None as the empty field.
WriteCell(v) == IF v = None THEN <<>> ELSE v

Truthy2(x) == x # None /\ x # <<>>

\* Mutant of CsvRowOf: the entries of the multi-valued columns sorted (and
\* with that deduplicated) before they are joined.
CsvRowOfSorted(r) ==
    LET for == r.field_of_research
        withCode == SelectSeq(for, LAMBDA e : Truthy2(e.code))
        withName == SelectSeq(for, LAMBDA e : Truthy2(e.name))
        primCode == SelectSeq(withCode, LAMBDA e : e.isPrimary)
        primName == SelectSeq(withName, LAMBDA e : e.isPrimary)
        chiefs == chief_investigators(r)
        withOrcid == SelectSeq(chiefs, LAMBDA ci : Truthy2(ci.orcid))
        sep == <<";", " ">>
        sorted(list) == SortedStrings(Range(list))
    IN [code |-> WriteCell(r.code),
        funding_commencement_year |-> r.funding_commencement_year,
        for_primary_codes |->
            Join(sorted([i \in 1..Len(primCode) |-> primCode[i].code]), sep),
        for_primary_names |->
            Join(sorted([i \in 1..Len(primName) |-> primName[i].name]), sep),
        for_all_codes |->
            Join(sorted([i \in 1..Len(withCode) |-> withCode[i].code]), sep),
        for_all_names |->
            Join(sorted([i \in 1..Len(withName) |-> withName[i].name]), sep),
        chief_investigators |->
            Join(sorted([i \in 1..Len(chiefs) |-> full_name(chiefs[i])]), sep),
        chief_investigators_orcids |->
            Join(sorted([i \in 1..Len(withOrcid) |-> Strip(withOrcid[i].orcid)]),
                 sep)]

\* One row of the CSV output: the Field of Research flattening and the
\* chief-investigator columns of the loop over results.
CsvRowOf(r) ==
    LET for == r.field_of_research
        withCode == SelectSeq(for, LAMBDA e : Truthy2(e.code))
        withName == SelectSeq(for, LAMBDA e : Truthy2(e.name))
        primCode == SelectSeq(withCode, LAMBDA e : e.isPrimary)
        primName == SelectSeq(withName, LAMBDA e : e.isPrimary)
        chiefs == chief_investigators(r)
        withOrcid == SelectSeq(chiefs, LAMBDA ci : Truthy2(ci.orcid))
        sep == <<";", " ">>
    IN [code |-> WriteCell(r.code),
        funding_commencement_year |-> r.funding_commencement_year,
        for_primary_codes |-> Join([i \in 1..Len(primCode) |-> primCode[i].code], sep),
        for_primary_names |-> Join([i \in 1..Len(primName) |-> primName[i].name], sep),
        for_all_codes |-> Join([i \in 1..Len(withCode) |-> withCode[i].code], sep),
        for_all_names |-> Join([i \in 1..Len(withName) |-> withName[i].name], sep),
        chief_investigators |->
            Join([i \in 1..Len(chiefs) |-> full_name(chiefs[i])], sep),
        chief_investigators_orcids |->
            Join([i \in 1..Len(withOrcid) |-> Strip(withOrcid[i].orcid)], sep)]

\* One object of the JSON output.
JsonObjectOf(r) ==
    [code |-> r.code, scheme_name |-> r.scheme_name,
     funding_commencement_year |-> r.funding_commencement_year,
     field_of_research |-> r.field_of_research,
     investigators_current |-> r.investigators_current,
     investigators_at_announcement |-> r.investigators_announcement,
     chief_investigators |-> chief_investigators(r)]

----------------------------------------------------------------------------
(* src/arc_dp_crawler.py: main() *)

\* Bound of the crawl: the listing pages one run fetches.
MaxPage == 2

CrawlArgs(max_pages, year_from, year_to, sleep) ==
    [max_pages |-> max_pages, year_from |-> year_from, year_to |-> year_to,
     sleep |-> sleep]

\* The values given to --year-from and --year-to: not given, 0, a year.
YearOptions == {NoNum, 0, 2015}

\* The command lines of the model: every pair of year options with the
\* default delay and no page cap, and two page caps without delay.
CommandLines ==
    {CrawlArgs(NoNum, yf, yt, 1) : yf \in YearOptions, yt \in YearOptions}
    \cup {CrawlArgs(1, NoNum, NoNum, 0), CrawlArgs(0, NoNum, NoNum, 0)}

InitCrawl ==
    /\ args \in CommandLines
    /\ pc = "discover"
    /\ page = 1
    /\ total_pages_seen = NoNum
    /\ dp_ids = <<>>
    /\ listed = {}
    /\ idx = 0
    /\ results = <<>>
    /\ outcomes = <<>>
    /\ errlog = <<>>
    /\ out_json = NoFile
    /\ out_csv = NoFile
    /\ sleeps = <<>>
    /\ reported = NoNum
    /\ page_failed = FALSE
    /\ requested = <<>>
    /\ ci_data = NoFile
    /\ RankIdle /\ CiIdle /\ GetIdle

discoverRest == <<args, idx, results, outcomes, errlog, out_json, out_csv,
                  sleeps, reported, ci_data>>

\* while True: the page cap is reached, the loop is left.
PageCapReached ==
    /\ pc = "discover"
    /\ Truthy(args.max_pages) /\ page > args.max_pages
    /\ pc' = "details"
    /\ UNCHANGED <<page, total_pages_seen, dp_ids, listed, page_failed,
                   requested, discoverRest, rankVars, ciVars, getVars>>

\* page += 1. The model follows the page number up to MaxPage + 1 and keeps
\* it modulo 2 from there on: every page cap and every total page count of
\* the model is at most MaxPage, so no test of the loop tells the page numbers
\* above MaxPage apart.
PageAfter(p) ==
    IF p <= MaxPage THEN p + 1
    ELSE IF p = MaxPage + 1 THEN MaxPage + 2 ELSE MaxPage + 1

\* fetch_page(session, page, args.page_size) is called and answers with
\* items, with an empty list, or raises: the call is added to the history,
\* with the total page count known when it is made. Calls are recorded as far
\* as the model follows the page number exactly (up to MaxPage + 1).
Requested(answer) ==
    IF page <= MaxPage + 1 /\ Len(requested) < MaxPage + 1
    THEN Append(requested, [page |-> page, answer |-> answer,
                            total_before |-> total_pages_seen])
    ELSE requested

\* Mutant of FetchPage: the test of the total page count after "page += 1"
\* left out.
FetchPageNoTotalExit ==
    /\ pc = "discover"
    /\ ~(Truthy(args.max_pages) /\ page > args.max_pages)
    /\ \E items \in ListingPages, tp \in TotalPages :
          LET seen == IF total_pages_seen = NoNum THEN tp ELSE total_pages_seen
          IN /\ \/ page <= MaxPage
                \/ /\ CollectedIds(args, items) = <<>>
                   /\ {items[i].id : i \in 1..Len(items)} \subseteq listed
             /\ total_pages_seen' = seen
             /\ requested' = Requested(IF items = <<>> THEN "empty" ELSE "items")
             /\ IF items = <<>>
                THEN /\ pc' = "details"
                     /\ UNCHANGED <<page, dp_ids, listed>>
                ELSE /\ dp_ids' = dp_ids \o CollectedIds(args, items)
                     /\ listed' = listed \cup {items[i].id : i \in 1..Len(items)}
                     /\ page' = PageAfter(page)
                     /\ pc' = "discover"
    /\ UNCHANGED <<page_failed, discoverRest, rankVars, ciVars, getVars>>

\* One pass of the while loop with a page fetched: total-pages remembered,
\* the items filtered into dp_ids, the two other exits of the loop. Above
\* MaxPage pages the model follows only the pages that repeat items listed
\* before and add no identifier.
FetchPage ==
    /\ pc = "discover"
    /\ ~(Truthy(args.max_pages) /\ page > args.max_pages)
    /\ \E items \in ListingPages, tp \in TotalPages :
          LET seen == IF total_pages_seen = NoNum THEN tp ELSE total_pages_seen
          IN /\ \/ page <= MaxPage
                \/ /\ CollectedIds(args, items) = <<>>
                   /\ {items[i].id : i \in 1..Len(items)} \subseteq listed
             /\ total_pages_seen' = seen
             /\ requested' = Requested(IF items = <<>> THEN "empty" ELSE "items")
             /\ IF items = <<>>
                THEN /\ pc' = "details"
                     /\ UNCHANGED <<page, dp_ids, listed>>
                ELSE /\ dp_ids' = dp_ids \o CollectedIds(args, items)
                     /\ listed' = listed \cup {items[i].id : i \in 1..Len(items)}
                     /\ page' = PageAfter(page)
                     /\ pc' = IF Truthy(seen) /\ PageAfter(page) > seen
                              THEN "details" ELSE "discover"
    /\ UNCHANGED <<page_failed, discoverRest, rankVars, ciVars, getVars>>

\* Mutant of FetchPageFails: the exception is caught and the loop left as by
\* "break", the identifiers collected so far going on to the detail loop.
FetchPageFailsCaught ==
    /\ pc = "discover"
    /\ ~(Truthy(args.max_pages) /\ page > args.max_pages)
    /\ pc' = "details"
    /\ page_failed' = TRUE
    /\ requested' = Requested("error")
    /\ UNCHANGED <<page, total_pages_seen, dp_ids, listed, discoverRest,
                   rankVars, ciVars, getVars>>

\* fetch_page raises (raise_for_status after the retries): nothing catches it.
FetchPageFails ==
    /\ pc = "discover"
    /\ ~(Truthy(args.max_pages) /\ page > args.max_pages)
    /\ pc' = "crashed"
    /\ page_failed' = TRUE
    /\ requested' = Requested("error")
    /\ UNCHANGED <<page, total_pages_seen, dp_ids, listed, discoverRest,
                   rankVars, ciVars, getVars>>

detailRest == <<args, page, total_pages_seen, dp_ids, listed, out_json,
                out_csv, reported, page_failed, requested, ci_data>>

\* One pass of the for loop without exception: the record is appended and
\* the delay taken.
FetchDetailOk ==
    /\ pc = "details" /\ idx < Len(dp_ids)
    /\ \E kind \in {"full", "empty"} :
          /\ results' = Append(results,
                 parse_grant(AttributesOf(dp_ids[idx + 1], kind)))
          /\ outcomes' = Append(outcomes, [gid |-> dp_ids[idx + 1], kind |-> kind])
    /\ sleeps' = IF args.sleep # 0
                 THEN Append(sleeps, [after |-> idx + 1, seconds |-> args.sleep])
                 ELSE sleeps
    /\ idx' = idx + 1
    /\ UNCHANGED <<pc, errlog, detailRest, rankVars, ciVars, getVars>>

\* Mutant of FetchDetailFail: the exception is not caught and ends the run.
FetchDetailFailAborts ==
    /\ pc = "details" /\ idx < Len(dp_ids)
    /\ outcomes' = Append(outcomes, [gid |-> dp_ids[idx + 1], kind |-> "error"])
    /\ pc' = "crashed"
    /\ UNCHANGED <<idx, errlog, results, sleeps, detailRest, rankVars, ciVars,
                   getVars>>

\* One pass of the for loop with an exception in fetch_detail or parse_grant:
\* caught, logged, the loop continues.
FetchDetailFail ==
    /\ pc = "details" /\ idx < Len(dp_ids)
    /\ errlog' = Append(errlog, dp_ids[idx + 1])
    /\ outcomes' = Append(outcomes, [gid |-> dp_ids[idx + 1], kind |-> "error"])
    /\ idx' = idx + 1
    /\ UNCHANGED <<pc, results, sleeps, detailRest, rankVars, ciVars, getVars>>

\* The for loop is over: the JSON file is written.
WriteJson ==
    /\ pc = "details" /\ idx = Len(dp_ids)
    /\ out_json' = [i \in 1..Len(results) |-> JsonObjectOf(results[i])]
    /\ pc' = "write_csv"
    /\ UNCHANGED <<args, page, total_pages_seen, dp_ids, listed, idx, results,
                   outcomes, errlog, out_csv, sleeps, reported, page_failed,
                   requested, ci_data, rankVars, ciVars, getVars>>

\* The CSV file is written, one row per record.
WriteCsv ==
    /\ pc = "write_csv"
    /\ out_csv' = [i \in 1..Len(results) |-> CsvRowOf(results[i])]
    /\ pc' = "report"
    /\ UNCHANGED <<args, page, total_pages_seen, dp_ids, listed, idx, results,
                   outcomes, errlog, out_json, sleeps, reported, page_failed,
                   requested, ci_data, rankVars, ciVars, getVars>>

\* print(f"Wrote {len(results)} records ...")
Report ==
    /\ pc = "report"
    /\ reported' = Len(results)
    /\ pc' = "done"
    /\ UNCHANGED <<args, page, total_pages_seen, dp_ids, listed, idx, results,
                   outcomes, errlog, out_json, out_csv, sleeps, page_failed,
                   requested, ci_data, rankVars, ciVars, getVars>>

\* src/extract_cis.py, run on the CSV the crawl has written: one entry per
\* name of the chief_investigators cell, with the ORCID at the same position
\* of the chief_investigators_orcids cell (affiliations are left out).
extract_cis_and_affiliations(rows) ==
    LET entries(row) ==
            IF Strip(row.chief_investigators) = <<>> THEN <<>>
            ELSE LET ci_list == StripSplit(row.chief_investigators)
                     orcid_list == StripSplit(row.chief_investigators_orcids)
                 IN [i \in 1..Len(ci_list) |->
                        [name |-> ci_list[i],
                         project_code |-> row.code,
                         orcids |-> IF i <= Len(orcid_list)
                                    THEN orcid_list[i] ELSE None]]
    IN Concat([j \in 1..Len(rows) |-> entries(rows[j])])

\* python extract_cis.py after the crawl.
ExtractCis ==
    /\ pc = "done" /\ ci_data = NoFile
    /\ ci_data' = extract_cis_and_affiliations(out_csv)
    /\ UNCHANGED <<pc, args, page, total_pages_seen, dp_ids, listed, idx, results,
                   outcomes, errlog, out_json, out_csv, sleeps, reported,
                   page_failed, requested, rankVars, ciVars, getVars>>

NextCrawl ==
    \/ ExtractCis
    \/ PageCapReached
    \/ FetchPage
    \/ FetchPageFails
    \/ FetchDetailOk
    \/ FetchDetailFail
    \/ WriteJson
    \/ WriteCsv
    \/ Report

SpecCrawl == InitCrawl /\ [][NextCrawl]_vars

\* The discovery loop of main() on its own, up to the point it is left; the
\* loop is a single thread that does not stop of itself.
NextDiscover ==
    \/ PageCapReached
    \/ FetchPage
    \/ FetchPageFails

SpecDiscover == InitCrawl /\ [][NextDiscover]_vars /\ WF_vars(NextDiscover)

----------------------------------------------------------------------------
(* Claims about the crawler *)

\* The listing attributes of the award behind a collected identifier.
AwardOf(gid) == Awards[gid].attributes

FundingFields(a) ==
    {a.funding_at_announcement, a.funding_current, a.announced_funding_amount,
     a.current_funding_amount}

HasPositiveFunding(a) ==
    \E f \in FundingFields(a) : f.type = "number" /\ f.val > 0

AllZeroOrAbsent(a) ==
    \A f \in FundingFields(a) : f.type = "absent" \/ (f.type = "number" /\ f.val = 0)

\* Per award: the scheme name equals "Discovery Projects" without regard to
\* case; a funding field is positive; all funding fields are zero or absent.
NamedDiscoveryProjects ==
    [g \in AwardIds |->
        /\ AwardOf(g).scheme_name # None
        /\ SameIgnoringCase(AwardOf(g).scheme_name, DiscoveryProjects)]
PositivelyFunded == [g \in AwardIds |-> HasPositiveFunding(AwardOf(g))]
Unfunded == [g \in AwardIds |-> AllZeroOrAbsent(AwardOf(g))]

\* C7 as stated: every collected identifier belongs to an item whose scheme
\* name equals "Discovery Projects" case-insensitively and that has a positive
\* funding field; an item of that scheme with all funding fields zero or
\* absent is never collected.
C7_AsStated ==
    /\ \A i \in 1..Len(dp_ids) :
          NamedDiscoveryProjects[dp_ids[i]] /\ PositivelyFunded[dp_ids[i]]
    /\ \A g \in listed :
          (NamedDiscoveryProjects[g] /\ Unfunded[g]) => g \notin Range(dp_ids)

\* The scheme name without leading and trailing blanks.
Trimmed(s) ==
    LET first == CHOOSE i \in 1..(Len(s) + 1) :
                    /\ \A j \in 1..(i - 1) : s[j] = " "
                    /\ i <= Len(s) => s[i] # " "
        last == CHOOSE i \in 0..Len(s) :
                    /\ \A j \in (i + 1)..Len(s) : s[j] = " "
                    /\ i >= 1 => s[i] # " "
    IN IF first > last THEN <<>> ELSE [k \in 1..(last - first + 1) |-> s[first + k - 1]]

\* Per award: the scheme name, trimmed, equals "Discovery Projects" without
\* regard to case.
TrimmedDiscoveryProjects ==
    [g \in AwardIds |->
        /\ AwardOf(g).scheme_name # None
        /\ SameIgnoringCase(Trimmed(AwardOf(g).scheme_name), DiscoveryProjects)]

\* C7 (amended): every collected identifier belongs to an item whose scheme
\* name, leading and trailing whitespace removed, equals "Discovery Projects"
\* case-insensitively and that has a positive funding field; an item of that
\* scheme with all funding fields zero or absent is never collected.
C7_CollectedAreFundedDiscoveryProjects ==
    /\ \A i \in 1..Len(dp_ids) :
          TrimmedDiscoveryProjects[dp_ids[i]] /\ PositivelyFunded[dp_ids[i]]
    /\ \A g \in listed :
          (TrimmedDiscoveryProjects[g] /\ Unfunded[g]) => g \notin Range(dp_ids)

\* C7 witness: discovery is over, having collected a funded Discovery Project
\* and listed, without collecting it, one whose funding is zero.
C7_Witness ==
    /\ pc = "details"
    /\ 1 \in Range(dp_ids)
    /\ \E g \in listed \ Range(dp_ids) :
          /\ SameIgnoringCase(AwardOf(g).scheme_name, DiscoveryProjects)
          /\ ~HasPositiveFunding(AwardOf(g))

\* The commencement year of an award, a missing year counting as 0.
YearOf(gid) ==
    IF AwardOf(gid).funding_commencement_year = NoNum
    THEN 0 ELSE AwardOf(gid).funding_commencement_year

HasYear(gid) == AwardOf(gid).funding_commencement_year # NoNum

\* C8 as stated: with a minimum year configured, every collected award has a
\* commencement year >= the minimum, and an award without a year is never
\* collected.
C8_AsStated ==
    args.year_from # NoNum =>
        \A i \in 1..Len(dp_ids) :
            YearOf(dp_ids[i]) >= args.year_from /\ HasYear(dp_ids[i])

\* C8 (amended): with a minimum year configured, every collected award has a
\* commencement year (a missing one counting as 0) >= the minimum; with a
\* positive minimum an award without a year is never collected.
C8_YearFromIsLowerBound ==
    /\ args.year_from # NoNum =>
          \A i \in 1..Len(dp_ids) : YearOf(dp_ids[i]) >= args.year_from
    /\ args.year_from > 0 =>
          \A i \in 1..Len(dp_ids) : HasYear(dp_ids[i])

\* C8 witness: with --year-from 2015 a page with an award of 2010 and one of
\* 2020 and a page with an award without a year were read; only the award of
\* 2020 was collected.
C8_Witness ==
    /\ pc = "details"
    /\ args.year_from = 2015 /\ args.year_to = NoNum
    /\ listed = {1, 2, 3}
    /\ dp_ids = <<1>>

\* C9: with a maximum year configured, every collected award has a
\* commencement year (a missing one counting as 0) <= the maximum.
C9_YearToIsUpperBound ==
    args.year_to # NoNum =>
        \A i \in 1..Len(dp_ids) : YearOf(dp_ids[i]) <= args.year_to

\* The j-th detail fetch that did not fail, as a position of outcomes.
Succeeded == {k \in 1..Len(outcomes) : outcomes[k].kind # "error"}
Failed == {k \in 1..Len(outcomes) : outcomes[k].kind = "error"}
NthOf(S, j) == CHOOSE k \in S : Cardinality({m \in S : m < k}) = j - 1

\* C10: a failed detail fetch is logged and skipped and the run goes on; the
\* records are those of the successful fetches in discovery order; at the end
\* both outputs are written and the reported count is the number of records.
C10_FailuresSkippedRunCompletes ==
    /\ Len(outcomes) = idx
    /\ \A k \in 1..Len(outcomes) : outcomes[k].gid = dp_ids[k]
    /\ Len(results) = Cardinality(Succeeded)
    /\ \A j \in 1..Len(results) :
          results[j].code =
              (IF outcomes[NthOf(Succeeded, j)].kind = "full"
               THEN DetailAttributes[outcomes[NthOf(Succeeded, j)].gid].code
               ELSE None)
    /\ Len(errlog) = Cardinality(Failed)
    /\ \A j \in 1..Len(errlog) : errlog[j] = outcomes[NthOf(Failed, j)].gid
    /\ Failed # {} => pc \in {"details", "write_csv", "report", "done"}
    /\ pc \in {"write_csv", "report", "done"} =>
          idx = Len(dp_ids) /\ Len(out_json) = Len(results)
    /\ pc \in {"report", "done"} =>
          /\ Len(out_csv) = Len(results)
          /\ \A j \in 1..Len(results) :
                out_csv[j].code = WriteCell(results[j].code)
                /\ out_json[j].code = results[j].code
    /\ pc = "done" => reported = Len(out_csv) /\ reported = Len(results)
    /\ pc \notin {"write_csv", "report", "done"} => out_json = NoFile
    /\ pc \notin {"report", "done"} => out_csv = NoFile

\* C10 witness: a run that ended after the first of three detail fetches
\* failed and the other two succeeded.
C10_Witness ==
    /\ pc = "done"
    /\ Len(outcomes) = 3
    /\ outcomes[1].kind = "error" /\ outcomes[2].kind = "full"
    /\ outcomes[3].kind = "full"
    /\ errlog = <<dp_ids[1]>>
    /\ reported = 2 /\ Len(out_csv) = 2 /\ Len(out_json) = 2

\* C11: once a listing-page request has failed the run is over: no detail
\* request is issued, no record parsed, neither output file written and
\* nothing reported, whatever had been collected from earlier pages.
C11_PageFailureAbortsRun ==
    page_failed =>
        /\ pc = "crashed"
        /\ idx = 0 /\ outcomes = <<>> /\ results = <<>> /\ errlog = <<>>
        /\ sleeps = <<>>
        /\ out_json = NoFile /\ out_csv = NoFile
        /\ reported = NoNum

\* C11 witness: the request of the second page failed after the first page
\* had given an identifier.
C11_Witness ==
    /\ page_failed /\ pc = "crashed"
    /\ page = 2 /\ dp_ids # <<>>

\* C12 as stated: the discovery loop is eventually left, whatever the listing
\* endpoint answers.
C12_AsStated == <>(pc # "discover")

\* C12 (amended): with a positive page cap configured, or a positive total
\* page count reported by the first page, the discovery loop is eventually
\* left (into the detail loop, or by a failed page request).
C12_CappedDiscoveryTerminates ==
    (pc = "discover" /\ (Truthy(args.max_pages) \/ Truthy(total_pages_seen)))
        ~> (pc = "details" \/ page_failed)

\* C12 witness: the loop was left by the total page count, two pages of the
\* two reported having been read, without page cap and without empty page.
C12_Witness ==
    /\ pc = "details" /\ idx = 0
    /\ args.max_pages = NoNum
    /\ total_pages_seen = 2 /\ page = 3
    /\ Len(dp_ids) = 3

\* The attempts of the request under way or just finished.
Attempts == Len(req.statuses)
IsHttpError(st) == st = 429 \/ (st >= 500 /\ st < 600)
InForcelist(st) == st \in {429, 500, 502, 503, 504}

\* C13 as stated: an attempt that meets status 429 or any 5xx status is
\* followed by another attempt after a backoff, unless it is the sixth; no
\* request has more than 1 + 5 attempts; a request whose sixth attempt meets
\* such a status fails, and no request returns data from an error status.
C13_AsStated ==
    /\ Attempts <= 1 + 5
    /\ \A k \in 1..Attempts :
          (IsHttpError(req.statuses[k]) /\ k < 1 + 5) =>
              /\ k < Attempts \/ req.state = "sending"
              /\ Len(req.backoffs) >= k
    /\ (Attempts = 1 + 5 /\ IsHttpError(req.statuses[Attempts])) =>
          req.state = "failed"
    /\ req.state = "returned" => ~IsHttpError(req.statuses[Attempts])

\* C13 (amended): the same for the statuses 429, 500, 502, 503 and 504; the
\* backoff times of one request never decrease.
C13_ForcelistRetriedSixAttempts ==
    /\ Attempts <= 1 + 5
    /\ \A k \in 1..Attempts :
          (InForcelist(req.statuses[k]) /\ k < 1 + 5) =>
              /\ k < Attempts \/ req.state = "sending"
              /\ Len(req.backoffs) >= k
    /\ \A i, j \in 1..Len(req.backoffs) :
          i < j => req.backoffs[i] <= req.backoffs[j]
    /\ (Attempts = 1 + 5 /\ InForcelist(req.statuses[Attempts])) =>
          req.state = "failed"
    /\ req.state = "returned" =>
          ~IsHttpError(req.statuses[Attempts]) /\ req.statuses[Attempts] = 200

\* C13 witness: a request failed at its sixth attempt, each of the first five
\* having met a retried status, 429 and 503 among them.
C13_Witness ==
    /\ req.state = "failed" /\ Attempts = 6
    /\ req.statuses[1] = 429 /\ req.statuses[6] = 503
    /\ \A k \in 1..6 : InForcelist(req.statuses[k])
    /\ Len(req.backoffs) = 5

\* C14: with a positive delay, each detail request but the last made so far
\* was followed by a sleep of that delay before the next request, whatever
\* its outcome; with a delay of zero there is no sleep at all.
C14_SleepBetweenDetailRequests ==
    /\ args.sleep > 0 =>
          \A k \in 1..(Len(outcomes) - 1) :
              \E i \in 1..Len(sleeps) :
                  sleeps[i] = [after |-> k, seconds |-> args.sleep]
    /\ args.sleep = 0 => sleeps = <<>>

\* The record of the j-th CSV row and the lists its multi-valued columns are
\* made of, in the order of the source record: the entries of the selected
\* positions of a list, positions ascending.
Picked(list, positions, field) ==
    [k \in 1..Cardinality(positions) |-> list[NthOf(positions, k)][field]]

Present(x) == x # None /\ x # <<>>

ForCodes(r) ==
    Picked(r.field_of_research,
           {i \in 1..Len(r.field_of_research) :
               Present(r.field_of_research[i].code)}, "code")
ForNames(r) ==
    Picked(r.field_of_research,
           {i \in 1..Len(r.field_of_research) :
               Present(r.field_of_research[i].name)}, "name")
PrimaryCodes(r) ==
    Picked(r.field_of_research,
           {i \in 1..Len(r.field_of_research) :
               /\ Present(r.field_of_research[i].code)
               /\ r.field_of_research[i].isPrimary}, "code")
PrimaryNames(r) ==
    Picked(r.field_of_research,
           {i \in 1..Len(r.field_of_research) :
               /\ Present(r.field_of_research[i].name)
               /\ r.field_of_research[i].isPrimary}, "name")
ChiefNames(r) ==
    [k \in 1..Len(chief_investigators(r)) |->
        full_name(chief_investigators(r)[k])]
ChiefOrcids(r) ==
    Picked(chief_investigators(r),
           {i \in 1..Len(chief_investigators(r)) :
               Present(chief_investigators(r)[i].orcid)}, "orcid")

\* The text of a cell: the entries in order with "; " between them.
RECURSIVE Cell(_)
Cell(list) ==
    IF list = <<>> THEN <<>>
    ELSE IF Len(list) = 1 THEN list[1]
    ELSE Cell(SubSeq(list, 1, Len(list) - 1)) \o <<";", " ">> \o list[Len(list)]

\* The records the detail loop can parse, and for each the text its
\* multi-valued cells are to hold: the entries in the record's order.
FetchedRecords ==
    {parse_grant(AttributesOf(g, kind)) : g \in AwardIds, kind \in {"full", "empty"}}

CellsInRecordOrder ==
    [r \in FetchedRecords |->
        [for_all_codes |-> Cell(ForCodes(r)),
         for_all_names |-> Cell(ForNames(r)),
         for_primary_codes |-> Cell(PrimaryCodes(r)),
         for_primary_names |-> Cell(PrimaryNames(r)),
         chief_investigators |-> Cell(ChiefNames(r)),
         chief_investigators_orcids |-> Cell(ChiefOrcids(r))]]

\* C15: the CSV has one row per record, in the order the records were
\* fetched, and each multi-valued cell holds the entries of the record in the
\* record's order.
C15_CsvRowsAndEntriesInOrder ==
    pc \in {"report", "done"} =>
        /\ Len(out_csv) = Len(results)
        /\ Len(out_csv) = Cardinality(Succeeded)
        /\ \A j \in 1..Len(out_csv) :
              LET o == outcomes[NthOf(Succeeded, j)]
                  cells == CellsInRecordOrder[results[j]]
              IN /\ out_csv[j].code =
                       (IF o.kind = "full" THEN DetailAttributes[o.gid].code
                        ELSE <<>>)
                 /\ out_csv[j].for_all_codes = cells.for_all_codes
                 /\ out_csv[j].for_all_names = cells.for_all_names
                 /\ out_csv[j].for_primary_codes = cells.for_primary_codes
                 /\ out_csv[j].for_primary_names = cells.for_primary_names
                 /\ out_csv[j].chief_investigators = cells.chief_investigators
                 /\ out_csv[j].chief_investigators_orcids =
                       cells.chief_investigators_orcids

\* C15 witness: two rows written, the first of a record whose codes, names
\* and chief investigators are not in sorted order.
C15_Witness ==
    /\ pc = "done" /\ Len(out_csv) = 2
    /\ out_csv[1].code = <<"D", "P", "1">>
    /\ out_csv[1].for_all_codes =
          F4602 \o <<";", " ">> \o F0801 \o <<";", " ">> \o F4602
    /\ out_csv[1].for_primary_names = <<"A", "I", ";", " ", "A", "I">>
    /\ out_csv[1].chief_investigators =
          <<"R", " ", "D", ";", " ", "J", " ", "S">>
    /\ out_csv[1].chief_investigators_orcids = <<"2", ";", " ", "1">>
    /\ out_csv[2].code = <<"D", "P", "2">>

\* cell.split("; "): the pieces of the cell between the occurrences of "; ",
\* found from the left.
RECURSIVE SplitOnSeparator(_, _)
SplitOnSeparator(cell, cur) ==
    IF cell = <<>> THEN <<cur>>
    ELSE IF Len(cell) >= 2 /\ cell[1] = ";" /\ cell[2] = " "
         THEN <<cur>> \o SplitOnSeparator(SubSeq(cell, 3, Len(cell)), <<>>)
         ELSE SplitOnSeparator(Tail(cell), Append(cur, Head(cell)))

\* C16: for every CSV row and each of the columns of classification codes,
\* classification names, primary codes, primary names and chief-investigator
\* full names, splitting the cell on "; " gives the list of the record,
\* whenever that list is not empty.
C16_SplitGivesBackTheLists ==
    pc \in {"report", "done"} =>
        \A j \in 1..Len(out_csv) :
            LET r == results[j]
                back(cell, list) ==
                    list # <<>> => SplitOnSeparator(cell, <<>>) = list
            IN /\ back(out_csv[j].for_all_codes, ForCodes(r))
               /\ back(out_csv[j].for_all_names, ForNames(r))
               /\ back(out_csv[j].for_primary_codes, PrimaryCodes(r))
               /\ back(out_csv[j].for_primary_names, PrimaryNames(r))
               /\ back(out_csv[j].chief_investigators, ChiefNames(r))

----------------------------------------------------------------------------
(* Claims about the long form and the detail answers *)

\* The names and the classification codes of a table row, as lists.
NamesOf(row) == split_list(row.chief_investigators)
CodesOf(row) == split_list(row.for_all_codes)

\* The number of positions of list holding x.
Occurrences(list, x) == Cardinality({k \in 1..Len(list) : list[k] = x})

\* The sum of f over the rows 1..n of the table.
RECURSIVE SumOver(_, _)
SumOver(f, n) == IF n = 0 THEN 0 ELSE f[n] + SumOver(f, n - 1)

\* C17: a record with m names and n classification codes gives m * n rows
\* of the long form, one per pair of a name and a code (as often as the pair
\* occurs in the two lists), all with the record's project code; hence a
\* record without classification code gives none.
C17_LongFormIsCrossProduct ==
    LET m == [i \in 1..Len(df) |-> Len(NamesOf(df[i]))]
        n == [i \in 1..Len(df) |-> Len(CodesOf(df[i]))]
        pairs(e) == [i \in 1..Len(df) |->
            IF df[i].code = e.code
            THEN Occurrences(NamesOf(df[i]), e.ci_name)
                 * Occurrences(CodesOf(df[i]), e.for_code)
            ELSE 0]
    IN /\ Len(exploded) = SumOver([i \in 1..Len(df) |-> m[i] * n[i]], Len(df))
       /\ \A i \in 1..Len(df) : \A a \in 1..m[i], b \in 1..n[i] :
             \E k \in 1..Len(exploded) :
                 exploded[k] = [code |-> df[i].code,
                                ci_name |-> NamesOf(df[i])[a],
                                for_code |-> CodesOf(df[i])[b]]
       /\ \A k \in 1..Len(exploded) :
             Occurrences(exploded, exploded[k]) =
                 SumOver(pairs(exploded[k]), Len(df))

\* C17 witness: the record with 2 investigators and 3 codes, alone in the
\* table, gives 6 rows, and with a record without codes still 6.
C17_Witness ==
    /\ Len(df) = 2
    /\ df[1] = CsvRow(A123, 2020, <<Smith, Doe>>, <<F0801, F4602, F0802>>)
    /\ df[2] = CsvRow(C789, NoNum, <<Doe>>, <<>>)
    /\ Len(exploded) = 6
    /\ \A k \in 1..6 : exploded[k].code = A123
    /\ resp.op = "rank"

\* The table without the records that have no chief investigator.
WithInvestigators(table) ==
    SelectSeq(table, LAMBDA r : r.chief_investigators # NaN)

\* C18: the records without chief investigator give no long-form row and
\* change no ranking: the long form and every ranking, overall or filtered,
\* are those of the table without these records, and no ranking entry has an
\* empty or missing name.
C18_NoInvestigatorNoRowNoRank ==
    LET kept == WithInvestigators(df)
    IN /\ exploded = load_data(kept)
       /\ \A k \in 1..Len(exploded) :
             exploded[k].ci_name # NaN /\ exploded[k].ci_name # <<>>
       /\ IsRank =>
             /\ \A i \in 1..Len(resp.ranked_cis) :
                   /\ resp.ranked_cis[i].ci_name # NaN
                   /\ resp.ranked_cis[i].ci_name # <<>>
             /\ resp \in get_ranked_cis(kept, load_data(kept),
                     resp.selected_codes, resp.selected_2digit_codes, resp.top_k)

\* C18 witness: an overall ranking of a table whose first record has codes
\* but no chief investigator; the ranking holds the investigator of the other
\* record only.
C18_Witness ==
    /\ Len(df) = 2
    /\ df[1] = CsvRow(C789, 2021, <<>>, <<F0801, F4602>>)
    /\ df[2] = CsvRow(B456, 2020, <<Smith>>, <<F0801>>)
    /\ IsRank /\ resp.is_overall
    /\ resp.ranked_cis = <<[ci_name |-> Smith, num_projects |-> 1]>>
    /\ Len(exploded) = 1

\* pat occurs in text, character for character.
IsSubstring(text, pat) ==
    \E off \in 0..(Len(text) - Len(pat)) :
        SubSeq(text, off + 1, off + Len(pat)) = pat

IsDetail == resp.op = "detail"

\* C19: without filter, the projects of a detail answer are the project
\* codes of the records whose chief_investigators text contains the name
\* asked for as a literal substring, each code once.
C19_UnfilteredDetailIsSubstringMatch ==
    (IsDetail /\ ~IsFiltered) =>
        LET codes == [i \in 1..Len(resp.projects) |-> resp.projects[i].code]
        IN /\ Range(codes) =
                 ProjectCodesOf(df, {i \in 1..Len(df) :
                     /\ df[i].chief_investigators # NaN
                     /\ IsSubstring(df[i].chief_investigators, resp.ci_name)})
           /\ \A i, j \in 1..Len(codes) : i # j => codes[i] # codes[j]

\* C20: in a detail answer a project stands before another only if its
\* commencement year is not the smaller one and, the years being the same,
\* its project code is not the larger one (projects without year aside).
C20_DetailSortedByYearThenCode ==
    IsDetail =>
        \A i, j \in 1..Len(resp.projects) :
            (/\ i < j
             /\ resp.projects[i].year # NoNum
             /\ resp.projects[j].year # NoNum) =>
                /\ resp.projects[i].year >= resp.projects[j].year
                /\ resp.projects[i].year = resp.projects[j].year =>
                      ~StrLess(resp.projects[j].code, resp.projects[i].code)

\* C20 witness: two projects of 2020 that the table holds with the larger
\* code first are answered with the smaller code first.
C20_Witness ==
    /\ Len(df) = 2
    /\ df[1].code = B456 /\ df[1].funding_commencement_year = 2020
    /\ df[2].code = A123 /\ df[2].funding_commencement_year = 2020
    /\ IsDetail /\ resp.ci_name = Smith
    /\ resp.projects = <<[code |-> A123, year |-> 2020],
                         [code |-> B456, year |-> 2020]>>

----------------------------------------------------------------------------
(* Claims about the service from its start *)

\* C21: when the load at startup failed (input file missing or malformed),
\* no route answers with success: the service does not serve answers made of
\* the empty defaults as if the load had succeeded.
C21_LoadFailureIsFatal ==
    startup.state = "not loaded" => (resp = NoResp \/ resp.status # 200)

\* The long-form rows the filter of the answer keeps.
FilteredRows == ApplyFilters(exploded, resp.selected_codes,
                             resp.selected_2digit_codes)

\* C22: under a filter that keeps no long-form row, rank answers with status
\* 200, an empty ranking and is_overall false, and detail answers with status
\* 200 and an empty project list; neither answer is the "Data not loaded"
\* answer (status 500, key "error").
C22_EmptyFilterResultIsNoError ==
    (resp.op \in {"rank", "detail"} /\ IsFiltered /\ FilteredRows = <<>>) =>
        /\ resp.status = 200
        /\ "error" \notin DOMAIN resp
        /\ resp # DataNotLoaded
        /\ IsRank => resp.ranked_cis = <<>> /\ resp.is_overall = FALSE
        /\ IsDetail => resp.projects = <<>>

\* C22 witness: a loaded table with a classified record of Smith, ranked
\* under the prefix 46 that none of its long-form rows carries.
C22_Witness ==
    /\ startup = Loaded
    /\ df = <<CsvRow(B456, 2021, <<Smith>>, <<F0801>>)>>
    /\ exploded # <<>>
    /\ IsRank /\ resp.selected_codes = <<>> /\ resp.selected_2digit_codes = <<P46>>
    /\ resp.ranked_cis = <<>> /\ resp.is_overall = FALSE /\ resp.status = 200

\* s is sorted ascending without duplicates.
StrictlyAscending(s) == \A i, j \in 1..Len(s) : i < j => StrLess(s[i], s[j])

\* C28: get_for_codes offers every classification code of the long form
\* among the specific codes and the first two characters of every such code
\* among the two-digit codes; both lists are sorted ascending, no duplicates.
C28_EveryLongFormCodeIsOffered ==
    (resp.op = "for_codes" /\ startup = Loaded) =>
        /\ \A k \in 1..Len(exploded) :
              /\ exploded[k].for_code \in Range(resp.specific_codes)
              /\ Len(exploded[k].for_code) >= 2 =>
                    SubSeq(exploded[k].for_code, 1, 2)
                        \in Range(resp.two_digit_codes)
        /\ StrictlyAscending(resp.specific_codes)
        /\ StrictlyAscending(resp.two_digit_codes)

----------------------------------------------------------------------------
(* Claims about the pages requested and the rows exported *)

\* C23: the pages are requested in the order 1, 2, 3, ...; no page is
\* requested whose number is above the page cap, when --max-pages is given,
\* or above the total page count the endpoint had reported by then; no page
\* is requested after a page that came back empty.
C23_PagesInOrderWithinLimits ==
    \A k \in 1..Len(requested) :
        /\ requested[k].page = k
        /\ args.max_pages # NoNum => requested[k].page <= args.max_pages
        /\ requested[k].total_before # NoNum =>
              requested[k].page <= requested[k].total_before
        /\ k < Len(requested) => requested[k].answer = "items"

\* C26: every row of the CSV has a non-empty project code and no two rows
\* have the same project code.
C26_OneRowPerAwardWithCode ==
    pc \in {"report", "done"} =>
        /\ \A j \in 1..Len(out_csv) : out_csv[j].code # <<>>
        /\ \A i, j \in 1..Len(out_csv) :
              i # j => out_csv[i].code # out_csv[j].code

\* The ORCID of an investigator as the export is to show it.
OwnOrcid(inv) == IF Present(inv.orcid) THEN Strip(inv.orcid) ELSE None

\* C27: every entry extract_cis_and_affiliations makes of the exported rows
\* carries the ORCID of the chief investigator it names: there is a record
\* with the entry's project code and a chief investigator of it with the
\* entry's name whose own ORCID (None if they have none) is the entry's.
C27_OrcidsBelongToTheirInvestigator ==
    ci_data # NoFile =>
        \A e \in 1..Len(ci_data) :
            \E j \in 1..Len(results) :
                /\ WriteCell(results[j].code) = ci_data[e].project_code
                /\ \E i \in 1..Len(chief_investigators(results[j])) :
                      LET ci == chief_investigators(results[j])[i]
                      IN /\ full_name(ci) = ci_data[e].name
                         /\ OwnOrcid(ci) = ci_data[e].orcids

----------------------------------------------------------------------------
(* Claims about ties, rank against detail, and the static generator *)

\* The position of name among the groups the grouping step produced.
GroupPosition(groups, name) ==
    CHOOSE k \in 1..Len(groups) : groups[k].ci_name = name

\* C24: two entries of a ranking with the same count stand in the order in
\* which the grouping step produced them.
C24_TiesKeepSourceOrder ==
    IsRank =>
        LET groups == RankGroups(df, exploded, resp.selected_codes,
                                 resp.selected_2digit_codes)
            r == resp.ranked_cis
        IN \A i, j \in 1..Len(r) :
              (i < j /\ r[i].num_projects = r[j].num_projects) =>
                  GroupPosition(groups, r[i].ci_name)
                      < GroupPosition(groups, r[j].ci_name)

\* The distinct projects rank counts for name under the filter of the answer.
CountedProjects(name) ==
    IF IsFiltered
    THEN ProjectCodesOf(df, MatchingRecords(df, name, resp.selected_codes,
                                            resp.selected_2digit_codes))
    ELSE AllProjectsOf(df, name)

\* C25: for every entry of a rank answer, with count n, the detail answer for
\* that investigator under the same filter holds exactly n projects, the
\* distinct projects rank counted.
C25_RankAndDetailAgree ==
    IsRank =>
        \A i \in 1..Len(resp.ranked_cis) :
            LET name == resp.ranked_cis[i].ci_name
                detail == get_ci_detail(df, exploded, name, resp.selected_codes,
                                        resp.selected_2digit_codes)
            IN /\ resp.ranked_cis[i].num_projects = Cardinality(CountedProjects(name))
               /\ Len(detail.projects) = resp.ranked_cis[i].num_projects
               /\ {detail.projects[k].code : k \in 1..Len(detail.projects)}
                     = CountedProjects(name)

\* The overall ranking before sort and head(TOP_K).
OverallGroups == RankGroups(df, exploded, <<>>, <<>>)

\* C29: every investigator of a filtered ranking is in the overall ranking
\* as it is before truncation, with a count not below the filtered one.
C29_FilteredCountAtMostOverall ==
    (IsRank /\ IsFiltered) =>
        \A i \in 1..Len(resp.ranked_cis) :
            \E k \in 1..Len(OverallGroups) :
                /\ OverallGroups[k].ci_name = resp.ranked_cis[i].ci_name
                /\ resp.ranked_cis[i].num_projects <= OverallGroups[k].num_projects

\* C29 witness: Smith, with two projects overall, is ranked with one under
\* the code 4602 that only one of the two carries.
C29_Witness ==
    /\ IsRank /\ resp.selected_codes = <<>> /\ resp.selected_2digit_codes = <<P46>>
    /\ \E i \in 1..Len(resp.ranked_cis) :
          /\ resp.ranked_cis[i] = [ci_name |-> Smith, num_projects |-> 1]
    /\ \E k \in 1..Len(OverallGroups) :
          OverallGroups[k] = [ci_name |-> Smith, num_projects |-> 2]

\* C30: the count ranked_cis.json holds for an investigator is the count of
\* the unfiltered rank answer of app.py for that investigator.
C30_StaticCountsEqualOverallRank ==
    (ranked_cis_json # NoFile /\ IsRank /\ ~IsFiltered /\ resp.top_k = TOP_K) =>
        \A i \in 1..Len(ranked_cis_json) :
            \E k \in 1..Len(resp.ranked_cis) :
                /\ resp.ranked_cis[k].ci_name = ranked_cis_json[i].ci_name
                /\ resp.ranked_cis[k].num_projects = ranked_cis_json[i].num_projects

====
